---- MODULE Spec2Model ----
(***************************************************************************)
(* Model of the canvas sync scripts: the unpacker (canvas-state.json ->    *)
(* directory tree, with the graph walk and the two cleanup passes) and the *)
(* packer (directory tree -> canvas-state.json).                           *)
(*                                                                         *)
(* A path is a sequence of directory names below the repository root; the  *)
(* repository root itself is <<>>.  A room directory name is a string      *)
(* "room-X".  A shape id "shape:X" is the pair <<"shape:", "X">> and a     *)
(* widget directory name "widget-X" / "shape-X" is the pair                *)
(* <<"widget-", "X">> / <<"shape-", "X">>, so that prefix tests and the    *)
(* prefix rewriting of the scripts are computed, not assumed.              *)
(***************************************************************************)
EXTENDS Integers, Sequences, FiniteSets, TLC

VARIABLES
  fs,                    \* the file tree below the repository root
  pc,                    \* position of the running script
  queue,                 \* traverseCanvasGraph: const queue
  referencedRooms,       \* this.referencedRooms
  unreferencedRoomDirs,  \* this.unreferencedRoomDirs
  processedWidgets,      \* this.processedWidgets
  now,                   \* wall clock read by new Date()
  packQueue,             \* CanvasStateGenerator.run: roomDirs still to pack
  rmFails,               \* the directories on which fs.rmSync throws
  fs0,                   \* history: the tree before the current unpack run
  fsRun1,                \* history: the tree left by the first unpack run
  unpacked,              \* history: rooms unpacked in the current run
  everQueued,            \* history: every path pushed on the queue in this run
  runs,                  \* history: number of unpack runs started
  packed,                \* history: TRUE once a pack run happened
  unpackLog,             \* history: the rooms unpacked in this run, in order
  queueLog,              \* history: the paths pushed on the queue in this run, in order
  repoPath,              \* the absolute path of the repository root, as segments
  argv,                  \* process.argv[2] of the last command-line script
  childRoom,             \* generateChildRoom: childRoomPath and its parent, <<>> before
  packedAtProvision      \* history: the value of packed when the child room was made

vars == <<fs, pc, queue, referencedRooms, unreferencedRoomDirs, processedWidgets,
          now, packQueue, rmFails, fs0, fsRun1, unpacked, everQueued, runs, packed,
          unpackLog, queueLog, repoPath, argv, childRoom, packedAtProvision>>

\* what the command-line scripts are given, and the room generate-room made
cli == <<repoPath, argv, childRoom, packedAtProvision>>

\* the logs of the walk
logs == <<unpackLog, queueLog>>

-----------------------------------------------------------------------------
(* Bounds of the model *)

MaxLinkRecords == 2   \* canvas-link records in the whole repository
MaxClock == 1         \* largest logical clock value drawn for a record
MaxRuns == 2          \* unpack runs in one behaviour of the cycle
MaxSegments == 3      \* segments below the repository root of a path given to delete-room
MaxWalkLinks == 3     \* canvas-link records in the trees of the walks with cycles

\* Room directory names, in the order readdirSync lists them
RoomNameOrder == <<"room-A", "room-B", "room-C">>
RoomNames == {RoomNameOrder[i] : i \in 1..Len(RoomNameOrder)}

\* Widget names (shape ids without the "shape:" prefix), in readdirSync order
WidgetNameOrder == <<"W1", "W2", "W3">>

\* Candidate room directories of the initial tree
DirUniverse ==
  { <<"room-A">>, <<"room-C">>,
    <<"room-A", "room-B">>, <<"room-A", "room-C">>,
    <<"room-A", "room-B", "room-C">>, <<"room-A", "room-B", "room-A">> }

-----------------------------------------------------------------------------
(* path and naming helpers *)

RootDir == <<>>

\* where the repository is checked out when nothing else is said
HomeRepo == <<"home", "repo">>

\* path.join(dir, name)
Join(p, n) == Append(p, n)

\* path.basename(p)
Basename(p) == p[Len(p)]

\* path.dirname(p)
Dirname(p) == SubSeq(p, 1, Len(p) - 1)

\* q is p or lies below p
IsUnder(q, p) == Len(q) >= Len(p) /\ SubSeq(q, 1, Len(p)) = p

\* name.startsWith(prefix) for a widget directory name
StartsWith(name, prefix) == name[1] = prefix

\* widget.shapeId.replace('shape:', ''): every shape id of the model carries
\* the "shape:" prefix, what is left is the second component
StripShapePrefix(shapeId) == shapeId[2]

\* `widget-${shapeIdClean}`
WidgetDirName(shapeId) == <<"widget-", StripShapePrefix(shapeId)>>

\* shapeDir.replace('shape-', 'shape:')
ShapeIdOfDir(name) == IF name[1] = "shape-" THEN <<"shape:", name[2]>> ELSE name

\* a plausible slip: x ?? d instead of x || d, a stored 0 is kept
NumAsStored(x, d) == x

\* JavaScript x || d on numbers: 0 is falsy
OrNum(x, d) == IF x = 0 THEN d ELSE x

\* JavaScript x || d on strings: '' is falsy
OrStr(x, d) == IF x = "" THEN d ELSE x

\* JavaScript x || d on a shape id: a missing key (<<>>) is falsy
OrId(x, d) == IF x = <<>> THEN d ELSE x

\* JavaScript x || d on an optional number: a missing key and 0 are falsy
OptNum(x, d) == IF x = <<>> THEN d ELSE OrNum(x[1], d)

\* JavaScript x || d on an optional string: a missing key and '' are falsy
OptStr(x, d) == IF x = <<>> THEN d ELSE OrStr(x[1], d)

\* f with key k set to v
Put(f, k, v) == [x \in (DOMAIN f) \cup {k} |-> IF x = k THEN v ELSE f[x]]

\* f without the keys in ks
Drop(f, ks) == [x \in (DOMAIN f) \ ks |-> f[x]]

EmptyMap == [x \in {} |-> 0]

\* a JSON object with no keys
EmptyObj == "{}"

\* lookup in a map stored as a set of <<key, value>> pairs: m[k] || {}
MapGet(m, k) == IF \E e \in m : e[1] = k THEN (CHOOSE e \in m : e[1] = k)[2] ELSE EmptyObj

-----------------------------------------------------------------------------
(* Records of a snapshot (canvas-state.json).  Every record has the same    *)
(* fields; a field a kind does not use is "" / {} / 0.  The optional fields *)
(* rotation, opacity, color and zoomScale are followed for miyagi-widget    *)
(* records: each is a sequence of length <= 1, <<>> when the key is absent. *)

\* {state: {typeName: 'document', id, meta: {roomId}}, lastChangedClock}
DocumentRec(id, roomId, lcc) ==
  [typeName |-> "document", type |-> "", id |-> id, lastChangedClock |-> lcc,
   roomId |-> roomId, targetCanvasId |-> "", jsxContent |-> "", htmlContent |-> "",
   widgets |-> {}, global |-> "",
   rotation |-> <<>>, opacity |-> <<>>, color |-> <<>>, zoomScale |-> <<>>]

\* {state: {typeName: 'page', id}, lastChangedClock}
PageRec(id, lcc) ==
  [typeName |-> "page", type |-> "", id |-> id, lastChangedClock |-> lcc,
   roomId |-> "", targetCanvasId |-> "", jsxContent |-> "", htmlContent |-> "",
   widgets |-> {}, global |-> "",
   rotation |-> <<>>, opacity |-> <<>>, color |-> <<>>, zoomScale |-> <<>>]

\* {state: {typeName: 'canvas_storage', id, widgets, global}, lastChangedClock}
StorageRec(id, widgetStorage, globalStorage, lcc) ==
  [typeName |-> "canvas_storage", type |-> "", id |-> id, lastChangedClock |-> lcc,
   roomId |-> "", targetCanvasId |-> "", jsxContent |-> "", htmlContent |-> "",
   widgets |-> widgetStorage, global |-> globalStorage,
   rotation |-> <<>>, opacity |-> <<>>, color |-> <<>>, zoomScale |-> <<>>]

\* {state: {typeName: 'shape', type: 'miyagi-widget', id, props: {jsxContent, htmlContent}}, lastChangedClock}
WidgetRec(id, jsx, html, lcc) ==
  [typeName |-> "shape", type |-> "miyagi-widget", id |-> id, lastChangedClock |-> lcc,
   roomId |-> "", targetCanvasId |-> "", jsxContent |-> jsx, htmlContent |-> html,
   widgets |-> {}, global |-> "",
   rotation |-> <<>>, opacity |-> <<>>, color |-> <<>>, zoomScale |-> <<>>]

\* a miyagi-widget record with state.rotation, state.opacity, state.props.color
\* and state.props.zoomScale as given in opt
WidgetRecWith(id, jsx, html, lcc, opt) ==
  [WidgetRec(id, jsx, html, lcc) EXCEPT
     !.rotation = opt.rotation, !.opacity = opt.opacity,
     !.color = opt.color, !.zoomScale = opt.zoomScale]

\* {state: {typeName: 'shape', type: 'canvas-link', id, props: {targetCanvasId}}, lastChangedClock}
LinkRec(id, target, lcc) ==
  [typeName |-> "shape", type |-> "canvas-link", id |-> id, lastChangedClock |-> lcc,
   roomId |-> "", targetCanvasId |-> target, jsxContent |-> "", htmlContent |-> "",
   widgets |-> {}, global |-> "",
   rotation |-> <<>>, opacity |-> <<>>, color |-> <<>>, zoomScale |-> <<>>]

\* 'document:document', 'page:page', 'canvas_storage:main'
DocumentId == <<"document:", "document">>
PageId == <<"page:", "page">>
StorageId == <<"canvas_storage:", "main">>

IsDocument(d) == d.typeName = "document"
IsPage(d) == d.typeName = "page"
IsStorage(d) == d.typeName = "canvas_storage"
IsWidget(d) == d.typeName = "shape" /\ d.type = "miyagi-widget"
IsLink(d) == d.typeName = "shape" /\ d.type = "canvas-link"

\* the elements of a sequence
Range(s) == {s[i] : i \in 1..Len(s)}

\* last element of s as a sequence of length <= 1
LastOf(s) == IF s = <<>> THEN <<>> ELSE <<s[Len(s)]>>

-----------------------------------------------------------------------------
(* The unpacker: one room *)

\* unpackRoom, first pass: widgets of the first canvas_storage record
RoomWidgetStorage(docs) ==
  LET st == SelectSeq(docs, IsStorage)
  IN IF st = <<>> THEN {} ELSE st[1].widgets

\* processedDocs.canvasLinks: the canvas-link records in record order
CanvasLinks(docs) == SelectSeq(docs, IsLink)

\* processedDocs.widgets: the miyagi-widget records in record order
WidgetRecords(docs) == SelectSeq(docs, IsWidget)

\* canvas-metadata.json as generateCanvasMetadata writes it
CanvasMetadata(snapshot, t) ==
  LET docs == snapshot.documents
      documentRecord == LastOf(SelectSeq(docs, IsDocument))
      pages == SelectSeq(docs, IsPage)
  IN [roomId |-> IF documentRecord = <<>> THEN "room-unknown"
                 ELSE OrStr(documentRecord[1].roomId, "room-unknown"),
      pages |-> [i \in 1..Len(pages) |->
                   [id |-> pages[i].id, lastChangedClock |-> pages[i].lastChangedClock]],
      generatedAt |-> t,
      clock |-> snapshot.clock,
      documentClock |-> snapshot.documentClock]

\* global-storage.json as generateGlobalStorage writes it
GlobalStorage(docs) ==
  LET canvasStorage == LastOf(SelectSeq(docs, IsStorage))
  IN IF canvasStorage = <<>> THEN EmptyObj ELSE OrStr(canvasStorage[1].global, EmptyObj)

\* the four files of a widget directory as generateWidgetDirectory writes them
WidgetFiles(w, roomWidgetStorage) ==
  [properties |-> <<[shapeId |-> w.id, lastChangedClock |-> w.lastChangedClock,
                     rotation |-> w.rotation, opacity |-> w.opacity,
                     color |-> w.color, zoomScale |-> w.zoomScale]>>,
   jsx |-> <<w.jsxContent>>,
   html |-> <<w.htmlContent>>,
   storage |-> <<MapGet(roomWidgetStorage, w.id)>>]

\* a plausible slip in generateWidgetDirectory: the four files are written
\* only when the directory had to be created
RECURSIVE GenerateWidgetDirectoriesIfAbsent(_, _, _, _)
GenerateWidgetDirectoriesIfAbsent(widgetDirs, ws, roomDir, roomWidgetStorage) ==
  IF ws = <<>> THEN widgetDirs
  ELSE GenerateWidgetDirectoriesIfAbsent(
         IF <<roomDir, WidgetDirName(Head(ws).id)>> \in DOMAIN widgetDirs
           THEN widgetDirs
           ELSE Put(widgetDirs, <<roomDir, WidgetDirName(Head(ws).id)>>,
                    WidgetFiles(Head(ws), roomWidgetStorage)),
         Tail(ws), roomDir, roomWidgetStorage)

\* generateWidgetDirectory for every widget record, in record order
RECURSIVE GenerateWidgetDirectories(_, _, _, _)
GenerateWidgetDirectories(widgetDirs, ws, roomDir, roomWidgetStorage) ==
  IF ws = <<>> THEN widgetDirs
  ELSE GenerateWidgetDirectories(
         Put(widgetDirs, <<roomDir, WidgetDirName(Head(ws).id)>>,
             WidgetFiles(Head(ws), roomWidgetStorage)),
         Tail(ws), roomDir, roomWidgetStorage)

\* canvas-link-info.json as storeCanvasLinkInfo writes it
CanvasLinkInfo(link, parentCanvasDir) ==
  [parentCanvasId |-> Basename(parentCanvasDir),
   linkShapeId |-> link.id,
   lastChangedClock |-> link.lastChangedClock]

\* a plausible slip in storeCanvasLinkInfo: no fs.existsSync(targetRoomDir) test
RECURSIVE StoreCanvasLinkInfosUnchecked(_, _, _, _)
StoreCanvasLinkInfosUnchecked(linkInfo, links, parentCanvasDir, dirs) ==
  IF links = <<>> THEN linkInfo
  ELSE LET l == Head(links)
       IN StoreCanvasLinkInfosUnchecked(
            IF l.targetCanvasId = "" THEN linkInfo
            ELSE Put(linkInfo, Join(parentCanvasDir, l.targetCanvasId),
                     CanvasLinkInfo(l, parentCanvasDir)),
            Tail(links), parentCanvasDir, dirs)

\* storeCanvasLinkInfo for every canvas-link record, in record order
RECURSIVE StoreCanvasLinkInfos(_, _, _, _)
StoreCanvasLinkInfos(linkInfo, links, parentCanvasDir, dirs) ==
  IF links = <<>> THEN linkInfo
  ELSE LET l == Head(links)
           targetRoomDir == Join(parentCanvasDir, l.targetCanvasId)
       IN StoreCanvasLinkInfos(
            IF l.targetCanvasId = "" \/ targetRoomDir \notin dirs
              THEN linkInfo
              ELSE Put(linkInfo, targetRoomDir, CanvasLinkInfo(l, parentCanvasDir)),
            Tail(links), parentCanvasDir, dirs)

\* the file tree after unpackRoom(roomDir/canvas-state.json) at time t
UnpackRoom(tree, roomDir, t) ==
  LET snapshot == tree.state[roomDir]
      docs == snapshot.documents
  IN [tree EXCEPT
       !.meta = Put(tree.meta, roomDir, CanvasMetadata(snapshot, t)),
       !.gstore = Put(tree.gstore, roomDir, GlobalStorage(docs)),
       !.widgets = GenerateWidgetDirectories(tree.widgets, WidgetRecords(docs), roomDir,
                                             RoomWidgetStorage(docs)),
       !.linkinfo = StoreCanvasLinkInfos(tree.linkinfo, CanvasLinks(docs), roomDir, tree.dirs)]

-----------------------------------------------------------------------------
(* The unpacker: graph walk and cleanup (CanvasStateUnpacker.run) *)

\* identifyRootRoom: the room-* directories directly under the repository root
RootRoomDirs(tree) == {p \in tree.dirs : Len(p) = 1}

\* a plausible slip in identifyRootRoom: only the empty case is rejected
ThrowsOnlyWithoutRoot(tree) == Cardinality(RootRoomDirs(tree)) = 0

\* identifyRootRoom throws: rootRoomDirs.length === 0 or rootRoomDirs.length > 1
IdentifyRootRoomThrows(tree) ==
  Cardinality(RootRoomDirs(tree)) = 0 \/ Cardinality(RootRoomDirs(tree)) > 1

\* a plausible slip in collectRoomDirectoriesInPath: the directory listed is
\* path.dirname(roomPath), so the room and its siblings are collected
RoomDirectoriesBeside(tree, roomPath) ==
  {p \in tree.dirs : Len(p) = Len(roomPath) /\ IsUnder(p, Dirname(roomPath))}

\* collectRoomDirectoriesInPath: the room-* directories directly under roomPath
RoomDirectoriesInPath(tree, roomPath) ==
  {p \in tree.dirs : Len(p) = Len(roomPath) + 1 /\ IsUnder(p, roomPath)}

\* a plausible slip in the link loop: the candidate is looked up by the target's
\* name instead of path.join(currentRoomPath, targetRoomName)
RECURSIVE ClearLinkTargetsByName(_, _, _)
ClearLinkTargetsByName(candidates, links, currentRoomPath) ==
  IF links = <<>> THEN candidates
  ELSE ClearLinkTargetsByName(candidates \ {<<Head(links).targetCanvasId>>},
                              Tail(links), currentRoomPath)

\* traverseCanvasGraph, lines 95-103: the candidates left after the link loop
RECURSIVE ClearLinkTargets(_, _, _)
ClearLinkTargets(candidates, links, currentRoomPath) ==
  IF links = <<>> THEN candidates
  ELSE LET targetRoomName == Head(links).targetCanvasId
       IN ClearLinkTargets(
            IF targetRoomName = "" THEN candidates
            ELSE candidates \ {Join(currentRoomPath, targetRoomName)},
            Tail(links), currentRoomPath)

\* a plausible slip in the link loop: no referencedRooms.has(targetRoomName) test
RECURSIVE LinkTargetsToEnqueueUnchecked(_, _, _)
LinkTargetsToEnqueueUnchecked(links, currentRoomPath, referenced) ==
  IF links = <<>> THEN <<>>
  ELSE LET targetRoomName == Head(links).targetCanvasId
           rest == LinkTargetsToEnqueueUnchecked(Tail(links), currentRoomPath, referenced)
       IN IF targetRoomName # ""
            THEN <<Join(currentRoomPath, targetRoomName)>> \o rest
            ELSE rest

\* a plausible slip in the link loop: the link records are read from the last
\* to the first
RECURSIVE LinkTargetsToEnqueueBackwards(_, _, _)
LinkTargetsToEnqueueBackwards(links, currentRoomPath, referenced) ==
  IF links = <<>> THEN <<>>
  ELSE LET targetRoomName == Head(links).targetCanvasId
           rest == LinkTargetsToEnqueueBackwards(Tail(links), currentRoomPath, referenced)
       IN IF targetRoomName # "" /\ targetRoomName \notin referenced
            THEN rest \o <<Join(currentRoomPath, targetRoomName)>>
            ELSE rest

\* traverseCanvasGraph, lines 95-103: the child paths pushed by the link loop
RECURSIVE LinkTargetsToEnqueue(_, _, _)
LinkTargetsToEnqueue(links, currentRoomPath, referenced) ==
  IF links = <<>> THEN <<>>
  ELSE LET targetRoomName == Head(links).targetCanvasId
           rest == LinkTargetsToEnqueue(Tail(links), currentRoomPath, referenced)
       IN IF targetRoomName # "" /\ targetRoomName \notin referenced
            THEN <<Join(currentRoomPath, targetRoomName)>> \o rest
            ELSE rest

\* the widget directories unpackRoom adds to processedWidgets
ProcessedWidgetsOf(docs, roomDir) ==
  {<<roomDir, WidgetDirName(w.id)>> : w \in Range(WidgetRecords(docs))}

\* fs.rmSync(dir, {recursive: true, force: true}) for every dir in roots
RemoveRoomTrees(tree, roots) ==
  LET gone(p) == \E r \in roots : IsUnder(p, r)
  IN [dirs |-> {p \in tree.dirs : ~gone(p)},
      state |-> Drop(tree.state, {p \in DOMAIN tree.state : gone(p)}),
      meta |-> Drop(tree.meta, {p \in DOMAIN tree.meta : gone(p)}),
      gstore |-> Drop(tree.gstore, {p \in DOMAIN tree.gstore : gone(p)}),
      linkinfo |-> Drop(tree.linkinfo, {p \in DOMAIN tree.linkinfo : gone(p)}),
      widgets |-> Drop(tree.widgets, {k \in DOMAIN tree.widgets : gone(k[1])})]

\* findShapeDirectories(rootDir): every widget-* directory of the tree
FindShapeDirectories(tree) == {k \in DOMAIN tree.widgets : StartsWith(k[2], "widget-")}

\* a plausible slip in cleanupOldWidgets: processed widgets are recognised by
\* their directory name instead of their path relative to the repository root
OldWidgetsByName(tree, processed) ==
  {k \in FindShapeDirectories(tree) : k[2] \notin {q[2] : q \in processed}}

\* cleanupOldWidgets: the widget directories it removes
OldWidgets(tree, processed) == {k \in FindShapeDirectories(tree) : k \notin processed}

\* findShapeDirectories(dir) as the list it returns: the entries of a directory
\* are visited in readdirSync order, room-* before widget-*; a room-* entry is
\* searched recursively, a widget-* entry is pushed
RECURSIVE FindShapeDirectoriesIn(_, _, _)
FindShapeDirectoriesIn(tree, dir, i) ==
  IF i > Len(RoomNameOrder)
    THEN SelectSeq([j \in 1..Len(WidgetNameOrder) |-> <<dir, <<"widget-", WidgetNameOrder[j]>>>>],
                   LAMBDA k : k \in FindShapeDirectories(tree))
    ELSE (IF Join(dir, RoomNameOrder[i]) \in tree.dirs
            THEN FindShapeDirectoriesIn(tree, Join(dir, RoomNameOrder[i]), 1)
            ELSE <<>>)
         \o FindShapeDirectoriesIn(tree, dir, i + 1)

\* cleanupOldWidgets: the directories it hands to fs.rmSync, in loop order
OldWidgetsInOrder(tree, processed) ==
  SelectSeq(FindShapeDirectoriesIn(tree, RootDir, 1),
            LAMBDA k : k \in OldWidgets(tree, processed))

\* index of the first directory of ds on which fs.rmSync throws, 0 if none
FirstFailure(ds, failing) ==
  IF \E i \in 1..Len(ds) : ds[i] \in failing
    THEN CHOOSE i \in 1..Len(ds) :
           ds[i] \in failing /\ \A j \in 1..(i - 1) : ds[j] \notin failing
    ELSE 0

\* fs.rmSync throws on no directory
NoRmFails == [widgets |-> {}, rooms |-> {}]

\* JSON.parse(canvasStateContent) throws: the file is not valid JSON
IsMalformed(snapshot) == "malformed" \in DOMAIN snapshot

history == <<fs0, fsRun1, runs, packed>>

\* run -> identifyRootRoom throws: zero or several root rooms, process.exit(1)
RunFails ==
  /\ pc = "start"
  /\ IdentifyRootRoomThrows(fs)
  /\ pc' = "failed"
  /\ UNCHANGED <<cli, logs, rmFails, fs, queue, referencedRooms, unreferencedRoomDirs, processedWidgets,
                 now, packQueue, unpacked, everQueued, history>>

\* run -> identifyRootRoom returns the root; traverseCanvasGraph starts its queue
IdentifyRootRoom ==
  /\ pc = "start"
  /\ ~IdentifyRootRoomThrows(fs)
  /\ LET rootRoomPath == CHOOSE p \in RootRoomDirs(fs) : TRUE
     IN /\ queue' = <<rootRoomPath>>
        /\ everQueued' = {rootRoomPath}
        /\ queueLog' = <<rootRoomPath>>
  /\ pc' = "traverse"
  /\ UNCHANGED <<cli, unpackLog, rmFails, fs, referencedRooms, unreferencedRoomDirs, processedWidgets,
                 now, packQueue, unpacked, history>>

\* a plausible slip in the while loop: a missing canvas-state.json is thrown
\* as an error instead of skipped with continue
SkipRoomAborts ==
  /\ pc = "traverse"
  /\ queue # <<>>
  /\ Head(queue) \notin DOMAIN fs.state
  /\ queue' = Tail(queue)
  /\ pc' = "failed"
  /\ UNCHANGED <<cli, logs, rmFails, fs, referencedRooms, unreferencedRoomDirs, processedWidgets,
                 now, packQueue, unpacked, everQueued, history>>

\* one iteration of the while loop: the dequeued room has no canvas-state.json
SkipRoom ==
  /\ pc = "traverse"
  /\ queue # <<>>
  /\ Head(queue) \notin DOMAIN fs.state
  /\ queue' = Tail(queue)
  /\ pc' = IF queue' = <<>> THEN "cleanWidgets" ELSE "traverse"
  /\ UNCHANGED <<cli, logs, rmFails, fs, referencedRooms, unreferencedRoomDirs, processedWidgets,
                 now, packQueue, unpacked, everQueued, history>>

\* one iteration of the while loop: the dequeued room is unpacked
ProcessRoom ==
  /\ pc = "traverse"
  /\ queue # <<>>
  /\ Head(queue) \in DOMAIN fs.state
  /\ ~IsMalformed(fs.state[Head(queue)])
  /\ LET currentRoomPath == Head(queue)
         currentRoomName == Basename(currentRoomPath)
         docs == fs.state[currentRoomPath].documents
         links == CanvasLinks(docs)
         referenced == referencedRooms \cup {currentRoomName}
         pushed == LinkTargetsToEnqueue(links, currentRoomPath, referenced)
     IN /\ referencedRooms' = referenced
        /\ unreferencedRoomDirs' =
             ClearLinkTargets(
               unreferencedRoomDirs \cup RoomDirectoriesInPath(fs, currentRoomPath),
               links, currentRoomPath)
        /\ fs' = UnpackRoom(fs, currentRoomPath, now)
        /\ processedWidgets' = processedWidgets \cup ProcessedWidgetsOf(docs, currentRoomPath)
        /\ queue' = Tail(queue) \o pushed
        /\ everQueued' = everQueued \cup Range(pushed)
        /\ unpacked' = unpacked \cup {currentRoomPath}
        /\ unpackLog' = Append(unpackLog, currentRoomPath)
        /\ queueLog' = queueLog \o pushed
  /\ pc' = IF queue' = <<>> THEN "cleanWidgets" ELSE "traverse"
  /\ UNCHANGED <<cli, rmFails, now, packQueue, history>>

\* one iteration of the while loop: unpackRoom throws on a malformed
\* canvas-state.json; nothing catches the error before run, process.exit(1)
UnpackRoomThrows ==
  /\ pc = "traverse"
  /\ queue # <<>>
  /\ Head(queue) \in DOMAIN fs.state
  /\ IsMalformed(fs.state[Head(queue)])
  /\ referencedRooms' = referencedRooms \cup {Basename(Head(queue))}
  /\ unreferencedRoomDirs' = unreferencedRoomDirs \cup RoomDirectoriesInPath(fs, Head(queue))
  /\ queue' = Tail(queue)
  /\ pc' = "failed"
  /\ UNCHANGED <<cli, logs, rmFails, fs, processedWidgets, now, packQueue, unpacked, everQueued, history>>

\* cleanupOldWidgets: fs.rmSync is not guarded, the first directory on which
\* it throws ends the loop and the run (process.exit(1) in run)
CleanupOldWidgets ==
  /\ pc = "cleanWidgets"
  /\ LET old == OldWidgetsInOrder(fs, processedWidgets)
         failed == FirstFailure(old, rmFails.widgets)
     IN IF failed = 0
          THEN /\ fs' = [fs EXCEPT !.widgets = Drop(fs.widgets, Range(old))]
               /\ pc' = "cleanRooms"
          ELSE /\ fs' = [fs EXCEPT !.widgets =
                           Drop(fs.widgets, Range(SubSeq(old, 1, failed - 1)))]
               /\ pc' = "failed"
  /\ UNCHANGED <<cli, logs, rmFails, queue, referencedRooms, unreferencedRoomDirs, processedWidgets,
                 now, packQueue, unpacked, everQueued, history>>

\* cleanupUnreferencedRooms: every fs.rmSync is guarded by try/catch; the run ends
CleanupUnreferencedRooms ==
  /\ pc = "cleanRooms"
  /\ fs' = RemoveRoomTrees(fs, unreferencedRoomDirs \ rmFails.rooms)
  /\ pc' = "done"
  /\ fsRun1' = IF runs = 1 THEN fs' ELSE fsRun1
  /\ UNCHANGED <<cli, logs, rmFails, queue, referencedRooms, unreferencedRoomDirs, processedWidgets,
                 now, packQueue, unpacked, everQueued, fs0, runs, packed>>

-----------------------------------------------------------------------------
(* The unpacker interrupted: the process is killed between two file system  *)
(* calls and the script is started again from scratch                       *)

\* the files generateWidgetDirectory writes, in the order it writes them,
\* after fs.mkdirSync
WidgetWriteOrder == <<"mkdir", "properties.json", "template.jsx", "template.html", "storage.json">>

\* the file system calls of unpackRoom(roomDir) that change the tree, in the
\* order the code makes them; index is the position of the widget or link
\* record the call belongs to
UnpackRoomWrites(tree, roomDir) ==
  LET docs == tree.state[roomDir].documents
      ws == WidgetRecords(docs)
      links == CanvasLinks(docs)
      stored == SelectSeq([i \in 1..Len(links) |-> i],
                          LAMBDA i : /\ links[i].targetCanvasId # ""
                                     /\ Join(roomDir, links[i].targetCanvasId) \in tree.dirs)
      perWidget == Len(WidgetWriteOrder)
  IN <<[file |-> "canvas-metadata.json", index |-> 0],
       [file |-> "global-storage.json", index |-> 0]>>
     \o [i \in 1..(perWidget * Len(ws)) |->
           [file |-> WidgetWriteOrder[((i - 1) % perWidget) + 1],
            index |-> ((i - 1) \div perWidget) + 1]]
     \o [i \in 1..Len(stored) |-> [file |-> "canvas-link-info.json", index |-> stored[i]]]

\* a widget directory fs.mkdirSync has just created
NoWidgetFiles == [properties |-> <<>>, jsx |-> <<>>, html |-> <<>>, storage |-> <<>>]

\* the tree after one file system call of unpackRoom(roomDir) at time t
ApplyWrite(tree, roomDir, t, write) ==
  LET snapshot == tree.state[roomDir]
      docs == snapshot.documents
      w == WidgetRecords(docs)[write.index]
      k == <<roomDir, WidgetDirName(w.id)>>
      files == WidgetFiles(w, RoomWidgetStorage(docs))
      link == CanvasLinks(docs)[write.index]
  IN CASE write.file = "canvas-metadata.json" ->
            [tree EXCEPT !.meta = Put(@, roomDir, CanvasMetadata(snapshot, t))]
       [] write.file = "global-storage.json" ->
            [tree EXCEPT !.gstore = Put(@, roomDir, GlobalStorage(docs))]
       [] write.file = "mkdir" ->
            IF k \in DOMAIN tree.widgets THEN tree
            ELSE [tree EXCEPT !.widgets = Put(@, k, NoWidgetFiles)]
       [] write.file = "properties.json" ->
            [tree EXCEPT !.widgets[k].properties = files.properties]
       [] write.file = "template.jsx" ->
            [tree EXCEPT !.widgets[k].jsx = files.jsx]
       [] write.file = "template.html" ->
            [tree EXCEPT !.widgets[k].html = files.html]
       [] write.file = "storage.json" ->
            [tree EXCEPT !.widgets[k].storage = files.storage]
       [] write.file = "canvas-link-info.json" ->
            [tree EXCEPT !.linkinfo = Put(@, Join(roomDir, link.targetCanvasId),
                                          CanvasLinkInfo(link, roomDir))]

\* the tree after the calls of writes, made in order
RECURSIVE ApplyWrites(_, _, _, _)
ApplyWrites(tree, roomDir, t, writes) ==
  IF writes = <<>> THEN tree
  ELSE ApplyWrites(ApplyWrite(tree, roomDir, t, Head(writes)), roomDir, t, Tail(writes))

\* traverseCanvasGraph from the queue q to the empty queue: the tree and the
\* two sets the cleanup passes read
RECURSIVE TraverseCanvasGraph(_, _, _, _, _, _)
TraverseCanvasGraph(tree, q, referenced, candidates, processed, t) ==
  IF q = <<>>
    THEN [tree |-> tree, unreferencedRoomDirs |-> candidates, processedWidgets |-> processed]
  ELSE LET currentRoomPath == Head(q)
       IN IF currentRoomPath \notin DOMAIN tree.state
            THEN TraverseCanvasGraph(tree, Tail(q), referenced, candidates, processed, t)
            ELSE LET docs == tree.state[currentRoomPath].documents
                     links == CanvasLinks(docs)
                     visited == referenced \cup {Basename(currentRoomPath)}
                 IN TraverseCanvasGraph(
                      UnpackRoom(tree, currentRoomPath, t),
                      Tail(q) \o LinkTargetsToEnqueue(links, currentRoomPath, visited),
                      visited,
                      ClearLinkTargets(
                        candidates \cup RoomDirectoriesInPath(tree, currentRoomPath),
                        links, currentRoomPath),
                      processed \cup ProcessedWidgetsOf(docs, currentRoomPath),
                      t)

\* the tree CanvasStateUnpacker.run leaves when it starts on tree at time t
\* and nothing interrupts it
UninterruptedRun(tree, t) ==
  IF IdentifyRootRoomThrows(tree) THEN tree
  ELSE LET rootRoomPath == CHOOSE p \in RootRoomDirs(tree) : TRUE
           walk == TraverseCanvasGraph(tree, <<rootRoomPath>>, {}, {}, {}, t)
           swept == [walk.tree EXCEPT
                       !.widgets = Drop(@, OldWidgets(walk.tree, walk.processedWidgets))]
       IN RemoveRoomTrees(swept, walk.unreferencedRoomDirs)

\* the process is killed inside unpackRoom, after the first k of its file
\* system calls: k = 0 is a crash between two rooms
CrashInUnpackRoom ==
  /\ pc = "traverse"
  /\ queue # <<>>
  /\ Head(queue) \in DOMAIN fs.state
  /\ ~IsMalformed(fs.state[Head(queue)])
  /\ \E k \in 0..Len(UnpackRoomWrites(fs, Head(queue))) :
       fs' = ApplyWrites(fs, Head(queue), now,
                         SubSeq(UnpackRoomWrites(fs, Head(queue)), 1, k))
  /\ fsRun1' = fs'
  /\ pc' = "crashed"
  /\ UNCHANGED <<cli, logs, rmFails, queue, referencedRooms, unreferencedRoomDirs,
                 processedWidgets, now, packQueue, unpacked, everQueued, fs0, runs, packed>>

\* the process is killed inside cleanupOldWidgets, after the first k removals
CrashInCleanupOldWidgets ==
  /\ pc = "cleanWidgets"
  /\ LET old == OldWidgetsInOrder(fs, processedWidgets)
     IN \E k \in 0..Len(old) :
          fs' = [fs EXCEPT !.widgets = Drop(fs.widgets, Range(SubSeq(old, 1, k)))]
  /\ fsRun1' = fs'
  /\ pc' = "crashed"
  /\ UNCHANGED <<cli, logs, rmFails, queue, referencedRooms, unreferencedRoomDirs,
                 processedWidgets, now, packQueue, unpacked, everQueued, fs0, runs, packed>>

\* the process is killed inside cleanupUnreferencedRooms, after some of the
\* removals: the loop follows the insertion order of the set, of which any
\* subset may be a prefix
CrashInCleanupUnreferencedRooms ==
  /\ pc = "cleanRooms"
  /\ \E gone \in SUBSET unreferencedRoomDirs : fs' = RemoveRoomTrees(fs, gone)
  /\ fsRun1' = fs'
  /\ pc' = "crashed"
  /\ UNCHANGED <<cli, logs, rmFails, queue, referencedRooms, unreferencedRoomDirs,
                 processedWidgets, now, packQueue, unpacked, everQueued, fs0, runs, packed>>

\* the unpack script is started again, later, on the tree the crash left: a
\* new CanvasStateUnpacker with empty sets
RunAfterCrash ==
  /\ pc = "crashed"
  /\ runs < MaxRuns
  /\ runs' = runs + 1
  /\ now' = now + 1
  /\ pc' = "start"
  /\ queue' = <<>>
  /\ referencedRooms' = {}
  /\ unreferencedRoomDirs' = {}
  /\ processedWidgets' = {}
  /\ unpacked' = {}
  /\ everQueued' = {}
  /\ unpackLog' = <<>>
  /\ queueLog' = <<>>
  /\ UNCHANGED <<cli, rmFails, fs, packQueue, fs0, fsRun1, packed>>

-----------------------------------------------------------------------------
(* The packer (CanvasStateGenerator) *)

\* searchRecursively over the room-* entries i.. of currentDir, in readdir order
RECURSIVE SearchRecursively(_, _, _)
SearchRecursively(tree, currentDir, i) ==
  IF i > Len(RoomNameOrder) THEN <<>>
  ELSE LET child == Join(currentDir, RoomNameOrder[i])
       IN (IF child \in tree.dirs
             THEN (IF child \in DOMAIN tree.meta THEN <<child>> ELSE <<>>)
                  \o SearchRecursively(tree, child, 1)
             ELSE <<>>)
          \o SearchRecursively(tree, currentDir, i + 1)

\* findRoomDirectories(rootDir): the directories that hold canvas-metadata.json
FindRoomDirectories(tree) == SearchRecursively(tree, RootDir, 1)

\* a plausible slip in loadWidget: only properties.json is required
LoadWidgetWithoutTemplates(tree, roomDir, shapeDir) ==
  LET files == tree.widgets[<<roomDir, shapeDir>>]
  IN IF files.properties = <<>> THEN <<>>
     ELSE <<[shapeId |-> ShapeIdOfDir(shapeDir), properties |-> files.properties[1],
             jsxContent |-> IF files.jsx = <<>> THEN "" ELSE files.jsx[1],
             htmlContent |-> IF files.html = <<>> THEN "" ELSE files.html[1],
             storage |-> IF files.storage = <<>> THEN EmptyObj ELSE files.storage[1]]>>

\* loadWidget: the widget of one shape-* directory, or nothing when incomplete
LoadWidget(tree, roomDir, shapeDir) ==
  LET files == tree.widgets[<<roomDir, shapeDir>>]
      jsxContent == IF files.jsx = <<>> THEN "" ELSE files.jsx[1]
      htmlContent == IF files.html = <<>> THEN "" ELSE files.html[1]
      storage == IF files.storage = <<>> THEN EmptyObj ELSE files.storage[1]
  IN IF files.properties = <<>> \/ jsxContent = "" \/ htmlContent = ""
       THEN <<>>
       ELSE <<[shapeId |-> ShapeIdOfDir(shapeDir), properties |-> files.properties[1],
               jsxContent |-> jsxContent, htmlContent |-> htmlContent,
               storage |-> storage]>>

\* a plausible slip in loadRoomWidgets: widgets.unshift instead of widgets.push
RECURSIVE LoadRoomWidgetsBackwards(_, _, _)
LoadRoomWidgetsBackwards(tree, roomDir, i) ==
  IF i > Len(WidgetNameOrder) THEN <<>>
  ELSE LET entry == <<"shape-", WidgetNameOrder[i]>>
       IN LoadRoomWidgetsBackwards(tree, roomDir, i + 1)
          \o (IF <<roomDir, entry>> \in DOMAIN tree.widgets
                THEN LoadWidget(tree, roomDir, entry)
                ELSE <<>>)

\* loadRoomWidgets: the widgets of the shape-* directories i.. of roomDir
RECURSIVE LoadRoomWidgets(_, _, _)
LoadRoomWidgets(tree, roomDir, i) ==
  IF i > Len(WidgetNameOrder) THEN <<>>
  ELSE LET entry == <<"shape-", WidgetNameOrder[i]>>
       IN (IF <<roomDir, entry>> \in DOMAIN tree.widgets /\ StartsWith(entry, "shape-")
             THEN LoadWidget(tree, roomDir, entry)
             ELSE <<>>)
          \o LoadRoomWidgets(tree, roomDir, i + 1)

\* a plausible slip in loadRoomWidgets: the storage map is keyed by the shape
\* id derived from the directory name
WidgetStorageByDirectory(widgets) ==
  {<<widgets[i].shapeId, widgets[i].storage>> : i \in 1..Len(widgets)}

\* loadRoomWidgets: widgetStorage[shapeId] = widget.storage, with
\* shapeId = widget.properties.shapeId || widget.shapeId (no properties.json
\* of the model carries the older key id)
WidgetStorageOf(widgets) ==
  {<<OrId(widgets[i].properties.shapeId, widgets[i].shapeId), widgets[i].storage>> :
     i \in 1..Len(widgets)}

\* a plausible slip in loadCanvasLinksForParentRoom: the descriptor's
\* parentCanvasId is not compared with the current room's name
RECURSIVE LoadCanvasLinksOfAnyParent(_, _, _)
LoadCanvasLinksOfAnyParent(tree, currentRoomDir, i) ==
  IF i > Len(RoomNameOrder) THEN <<>>
  ELSE LET entry == RoomNameOrder[i]
           childRoomDir == Join(currentRoomDir, entry)
       IN (IF childRoomDir \in tree.dirs /\ childRoomDir \in DOMAIN tree.linkinfo
             THEN <<[shapeId |-> tree.linkinfo[childRoomDir].linkShapeId,
                     targetCanvasId |-> entry,
                     lastChangedClock |->
                       OrNum(tree.linkinfo[childRoomDir].lastChangedClock, 0)]>>
             ELSE <<>>)
          \o LoadCanvasLinksOfAnyParent(tree, currentRoomDir, i + 1)

\* the descriptors below dir, at any depth, that name parentName
RECURSIVE DescriptorsBelow(_, _, _, _)
DescriptorsBelow(tree, dir, parentName, i) ==
  IF i > Len(RoomNameOrder) THEN <<>>
  ELSE LET entry == RoomNameOrder[i]
           childRoomDir == Join(dir, entry)
       IN (IF childRoomDir \in tree.dirs
             THEN (IF /\ childRoomDir \in DOMAIN tree.linkinfo
                      /\ tree.linkinfo[childRoomDir].parentCanvasId = parentName
                     THEN <<[shapeId |-> tree.linkinfo[childRoomDir].linkShapeId,
                             targetCanvasId |-> entry,
                             lastChangedClock |->
                               OrNum(tree.linkinfo[childRoomDir].lastChangedClock, 0)]>>
                     ELSE <<>>)
                  \o DescriptorsBelow(tree, childRoomDir, parentName, 1)
             ELSE <<>>)
          \o DescriptorsBelow(tree, dir, parentName, i + 1)

\* a plausible slip in loadCanvasLinksForParentRoom: the room-* directories
\* are searched recursively, as findRoomDirectories searches them
LoadCanvasLinksOfDescendants(tree, currentRoomDir, i) ==
  DescriptorsBelow(tree, currentRoomDir, Basename(currentRoomDir), i)

\* loadCanvasLinksForParentRoom over the room-* entries i.. of currentRoomDir
RECURSIVE LoadCanvasLinksForParentRoom(_, _, _)
LoadCanvasLinksForParentRoom(tree, currentRoomDir, i) ==
  IF i > Len(RoomNameOrder) THEN <<>>
  ELSE LET entry == RoomNameOrder[i]
           childRoomDir == Join(currentRoomDir, entry)
       IN (IF /\ childRoomDir \in tree.dirs
              /\ childRoomDir \in DOMAIN tree.linkinfo
              /\ tree.linkinfo[childRoomDir].parentCanvasId = Basename(currentRoomDir)
             THEN <<[shapeId |-> tree.linkinfo[childRoomDir].linkShapeId,
                     targetCanvasId |-> entry,
                     lastChangedClock |->
                       OrNum(tree.linkinfo[childRoomDir].lastChangedClock, 0)]>>
             ELSE <<>>)
          \o LoadCanvasLinksForParentRoom(tree, currentRoomDir, i + 1)

\* generateRoomSnapshot
GenerateRoomSnapshot(canvasMetadata, globalStorage, widgetStorage, widgets, canvasLinks) ==
  LET pages == canvasMetadata.pages
      documents ==
        <<DocumentRec(DocumentId, OrStr(canvasMetadata.roomId, "room-generated"),
                      OrNum(canvasMetadata.documentClock, 2)),
          PageRec(IF pages = <<>> THEN PageId ELSE pages[1].id,
                  IF pages = <<>> THEN 0 ELSE OrNum(pages[1].lastChangedClock, 0)),
          StorageRec(StorageId, widgetStorage, globalStorage,
                     Len(widgets) + Len(canvasLinks) + 2)>>
        \o [i \in 1..Len(widgets) |->
              LET props == widgets[i].properties
              IN WidgetRecWith(OrId(props.shapeId, widgets[i].shapeId),
                               widgets[i].jsxContent, widgets[i].htmlContent,
                               OrNum(props.lastChangedClock, i + 2),
                               [rotation |-> <<OptNum(props.rotation, 0)>>,
                                opacity |-> <<OptNum(props.opacity, 1)>>,
                                color |-> <<OptStr(props.color, "black")>>,
                                zoomScale |-> <<OptNum(props.zoomScale, 1)>>])]
        \o [j \in 1..Len(canvasLinks) |->
              LinkRec(canvasLinks[j].shapeId, canvasLinks[j].targetCanvasId,
                      OrNum(canvasLinks[j].lastChangedClock, Len(widgets) + j + 2))]
      totalClock == OrNum(canvasMetadata.clock, Len(documents) + 1)
  IN [clock |-> totalClock,
      documentClock |-> OrNum(canvasMetadata.documentClock, totalClock),
      documents |-> documents]

\* the file tree after generateRoomCanvasState(roomDir)
GenerateRoomCanvasState(tree, roomDir) ==
  IF roomDir \notin DOMAIN tree.meta THEN tree
  ELSE LET globalStorage ==
             IF roomDir \in DOMAIN tree.gstore THEN tree.gstore[roomDir] ELSE EmptyObj
           widgets == LoadRoomWidgets(tree, roomDir, 1)
           canvasLinks == LoadCanvasLinksForParentRoom(tree, roomDir, 1)
       IN [tree EXCEPT !.state =
             Put(tree.state, roomDir,
                 GenerateRoomSnapshot(tree.meta[roomDir], globalStorage,
                                      WidgetStorageOf(widgets), widgets, canvasLinks))]

\* CanvasStateGenerator.run starts: findRoomDirectories
StartPack ==
  /\ pc = "done"
  /\ runs = 1
  /\ ~packed
  /\ packed' = TRUE
  /\ packQueue' = FindRoomDirectories(fs)
  /\ pc' = IF packQueue' = <<>> THEN "packed" ELSE "pack"
  /\ UNCHANGED <<cli, logs, rmFails, fs, queue, referencedRooms, unreferencedRoomDirs, processedWidgets,
                 now, unpacked, everQueued, fs0, fsRun1, runs>>

\* CanvasStateGenerator.run, one iteration: generateRoomCanvasState(roomDir)
PackRoom ==
  /\ pc = "pack"
  /\ packQueue # <<>>
  /\ fs' = GenerateRoomCanvasState(fs, Head(packQueue))
  /\ packQueue' = Tail(packQueue)
  /\ pc' = IF packQueue' = <<>> THEN "packed" ELSE "pack"
  /\ UNCHANGED <<cli, logs, rmFails, queue, referencedRooms, unreferencedRoomDirs, processedWidgets,
                 now, unpacked, everQueued, history>>

\* generateRoomCanvasState(roomDir) for the rooms of findRoomDirectories taken
\* in any order, each room once
PackAnyRoom ==
  /\ pc = "pack"
  /\ \E i \in 1..Len(packQueue) :
       /\ fs' = GenerateRoomCanvasState(fs, packQueue[i])
       /\ packQueue' = SubSeq(packQueue, 1, i - 1) \o SubSeq(packQueue, i + 1, Len(packQueue))
  /\ pc' = IF packQueue' = <<>> THEN "packed" ELSE "pack"
  /\ UNCHANGED <<cli, logs, rmFails, queue, referencedRooms, unreferencedRoomDirs, processedWidgets,
                 now, unpacked, everQueued, history>>

\* the unpack script is started again, later, on the tree as it is
Rerun ==
  /\ pc \in {"done", "packed"}
  /\ runs < MaxRuns
  /\ runs' = runs + 1
  /\ now' = now + 1
  /\ fs0' = fs
  /\ pc' = "start"
  /\ queue' = <<>>
  /\ referencedRooms' = {}
  /\ unreferencedRoomDirs' = {}
  /\ processedWidgets' = {}
  /\ unpacked' = {}
  /\ everQueued' = {}
  /\ unpackLog' = <<>>
  /\ queueLog' = <<>>
  /\ UNCHANGED <<cli, rmFails, fs, packQueue, fsRun1, packed>>

-----------------------------------------------------------------------------
(* The delete-room command (delete-room.js).  An absolute path is the       *)
(* sequence of its segments; ".." is kept as a segment by path.split and    *)
(* path.basename and followed by the file system calls.                     *)

\* the names of the model that start with 'room-': the room directories and
\* a directory above the repository
RoomPrefixed == RoomNames \cup {"room-projects"}

\* the segments of the path given below the repository root
DeleteSegments == RoomNames \cup {".."}

\* countRoomOccurrences(roomPath)
CountRoomOccurrences(roomPath) ==
  Cardinality({i \in 1..Len(roomPath) : roomPath[i] \in RoomPrefixed})

\* the directory with absolute path abs exists: the directories above the
\* repository root, the root, and the room directories of the tree
DirExists(tree, root, abs) ==
  \/ Len(abs) <= Len(root) /\ abs = SubSeq(root, 1, Len(abs))
  \/ /\ Len(abs) > Len(root)
     /\ SubSeq(abs, 1, Len(root)) = root
     /\ SubSeq(abs, Len(root) + 1, Len(abs)) \in tree.dirs

\* the directory the file system reaches by following the segments of rest
\* from the directory acc, as a sequence of length <= 1: <<>> when a
\* directory on the way does not exist (fs.existsSync is false)
RECURSIVE Realpath(_, _, _, _)
Realpath(tree, root, acc, rest) ==
  IF ~DirExists(tree, root, acc) THEN <<>>
  ELSE IF rest = <<>> THEN <<acc>>
  ELSE IF Head(rest) = ".."
    THEN Realpath(tree, root, IF acc = <<>> THEN acc ELSE Dirname(acc), Tail(rest))
    ELSE Realpath(tree, root, Append(acc, Head(rest)), Tail(rest))

\* the path of a directory of the repository relative to the repository root
RelativeToRepo(root, abs) == SubSeq(abs, Len(root) + 1, Len(abs))

\* deleteRoom(roomPath) refuses: the path does not exist, its last segment
\* does not start with 'room-', or it holds fewer than two 'room-' segments
DeleteRoomRefuses(tree, root, roomPath) ==
  \/ Realpath(tree, root, <<>>, roomPath) = <<>>
  \/ Basename(roomPath) \notin RoomPrefixed
  \/ CountRoomOccurrences(roomPath) < 2

\* node delete-room.js <roomPath>, with roomPath a path into the repository
DeleteRoom ==
  /\ pc \in {"done", "deleted", "refused"}
  /\ \E n \in 1..MaxSegments : \E rel \in [1..n -> DeleteSegments] :
       argv' = repoPath \o rel
  /\ IF DeleteRoomRefuses(fs, repoPath, argv')
       THEN /\ fs' = fs
            /\ pc' = "refused"
       ELSE /\ fs' = RemoveRoomTrees(
                       fs, {RelativeToRepo(repoPath, Realpath(fs, repoPath, <<>>, argv')[1])})
            /\ pc' = "deleted"
  /\ fs0' = fs
  /\ UNCHANGED <<repoPath, childRoom, packedAtProvision, logs, rmFails, queue, referencedRooms, unreferencedRoomDirs,
                 processedWidgets, now, packQueue, unpacked, everQueued, fsRun1, runs, packed>>

-----------------------------------------------------------------------------
(* The room-provisioning command (generate-room.js) *)

\* generateRoomId(): room-<uuid>, an id no room of the repository carries
FreshRoomId == "room-C"

\* generateShapeId() and generatePageId(): ids no record carries
FreshShapeId == <<"shape:", "L4">>
FreshPageId == <<"page:", "P1">>

\* the empty canvas-state.json of a new room: {} holds no record and no clock
EmptyCanvasState == [clock |-> 0, documentClock |-> 0, documents |-> <<>>]

\* a plausible slip in generateChildRoom: the descriptor's parentCanvasId is
\* the id of the new room instead of the parent's
ChildRoomFilesNamingItself(tree, parentRoomPath, t) ==
  LET childRoomPath == Join(parentRoomPath, FreshRoomId)
  IN [tree EXCEPT
       !.dirs = @ \cup {childRoomPath},
       !.gstore = Put(@, childRoomPath, EmptyObj),
       !.state = Put(@, childRoomPath, EmptyCanvasState),
       !.linkinfo = Put(@, childRoomPath,
                        [parentCanvasId |-> FreshRoomId,
                         linkShapeId |-> FreshShapeId,
                         lastChangedClock |-> 2129]),
       !.meta = Put(@, childRoomPath,
                    [roomId |-> FreshRoomId,
                     pages |-> <<[id |-> FreshPageId, lastChangedClock |-> 0]>>,
                     generatedAt |-> t,
                     clock |-> 2,
                     documentClock |-> 2])]

\* the four files generateChildRoom writes into the new directory
ChildRoomFiles(tree, parentRoomPath, t) ==
  LET childRoomPath == Join(parentRoomPath, FreshRoomId)
  IN [tree EXCEPT
       !.dirs = @ \cup {childRoomPath},
       !.gstore = Put(@, childRoomPath, EmptyObj),
       !.state = Put(@, childRoomPath, EmptyCanvasState),
       !.linkinfo = Put(@, childRoomPath,
                        [parentCanvasId |-> tree.meta[parentRoomPath].roomId,
                         linkShapeId |-> FreshShapeId,
                         lastChangedClock |-> 2129]),
       !.meta = Put(@, childRoomPath,
                    [roomId |-> FreshRoomId,
                     pages |-> <<[id |-> FreshPageId, lastChangedClock |-> 0]>>,
                     generatedAt |-> t,
                     clock |-> 2,
                     documentClock |-> 2])]

\* node generate-room.js <parentRoomPath>, once, while no other script runs:
\* getParentInfo exits when the parent holds no canvas-metadata.json
GenerateChildRoom ==
  /\ pc \in {"done", "packed"}
  /\ childRoom = <<>>
  /\ \A d \in fs.dirs : Basename(d) # FreshRoomId
  /\ \E parentRoomPath \in fs.dirs :
       /\ argv' = repoPath \o parentRoomPath
       /\ IF parentRoomPath \notin DOMAIN fs.meta
            THEN UNCHANGED <<fs, childRoom, packedAtProvision>>
            ELSE /\ fs' = ChildRoomFiles(fs, parentRoomPath, now)
                 /\ childRoom' = <<[path |-> Join(parentRoomPath, FreshRoomId),
                                    parent |-> parentRoomPath]>>
                 /\ packedAtProvision' = packed
  /\ UNCHANGED <<repoPath, logs, rmFails, pc, queue, referencedRooms, unreferencedRoomDirs,
                 processedWidgets, now, packQueue, unpacked, everQueued, history>>

-----------------------------------------------------------------------------
(* Initial trees *)

LinkNameOrder == <<"L1", "L2", "L3", "L4">>

\* the per-widget storage object the canvas keeps for a widget
StorageOf(w) == IF w = "W1" THEN "s1" ELSE IF w = "W2" THEN "s2" ELSE "s3"

\* a canvas-state.json: document, page and storage record, then the widgets
\* named in ws, then one canvas-link per target in targets.  ck gives the
\* clocks: top-level clock and documentClock and the lastChangedClock of the
\* document, page, storage, widget and link records.
Snapshot(roomId, ws, stored, targets, ck) ==
  [clock |-> ck.clock,
   documentClock |-> ck.documentClock,
   documents |->
     <<DocumentRec(DocumentId, roomId, ck.document),
       PageRec(PageId, ck.page),
       StorageRec(StorageId, {<<(<<"shape:", w>>), StorageOf(w)>> : w \in stored}, "g1",
                  ck.storage)>>
     \o [i \in 1..Len(ws) |-> WidgetRec(<<"shape:", ws[i]>>, "jsx", "html", ck.widget)]
     \o [i \in 1..Len(targets) |->
           LinkRec(<<"shape:", LinkNameOrder[i]>>, targets[i], ck.link)]]

\* clocks of a snapshot the canvas has been editing for a while
BusyClocks ==
  [clock |-> 9, documentClock |-> 9, document |-> 2, page |-> 3, storage |-> 4,
   widget |-> 5, link |-> 6]

\* a widget directory left by an earlier unpack run
OldWidgetFiles(w) ==
  [properties |-> <<[shapeId |-> <<"shape:", w>>, lastChangedClock |-> 1,
                     rotation |-> <<>>, opacity |-> <<>>, color |-> <<>>,
                     zoomScale |-> <<>>]>>,
   jsx |-> <<"jsx">>, html |-> <<"html">>, storage |-> <<EmptyObj>>]

\* sets of room directories closed under taking the parent
Trees == {t \in SUBSET DirUniverse : \A p \in t : Len(p) = 1 \/ Dirname(p) \in t}

\* the targets of the link records of room p, in record order
TargetsOf(linkList, p) ==
  LET mine == SelectSeq(linkList, LAMBDA l : l[1] = p)
  IN [i \in 1..Len(mine) |-> mine[i][2]]

\* the tree with room directories t, a canvas-state.json in the rooms of has
\* whose link records are those of linkList, and widget directories W1 and W3
\* from an earlier run in every room
InitialTree(t, has, linkList) ==
  [dirs |-> t,
   state |-> [p \in has |->
                Snapshot(Basename(p), <<"W1", "W2">>, {"W1"}, TargetsOf(linkList, p),
                         BusyClocks)],
   meta |-> EmptyMap,
   gstore |-> EmptyMap,
   linkinfo |-> EmptyMap,
   widgets |-> [k \in {<<p, <<"widget-", w>>>> : p \in t, w \in {"W1", "W3"}} |->
                  OldWidgetFiles(k[2][2])]]

WalkerInit ==
  /\ pc = "start"
  /\ queue = <<>>
  /\ referencedRooms = {}
  /\ unreferencedRoomDirs = {}
  /\ processedWidgets = {}
  /\ unpacked = {}
  /\ everQueued = {}
  /\ packQueue = <<>>
  /\ rmFails = NoRmFails
  /\ now = 1
  /\ runs = 1
  /\ packed = FALSE
  /\ unpackLog = <<>>
  /\ queueLog = <<>>
  /\ repoPath = HomeRepo
  /\ childRoom = <<>>
  /\ packedAtProvision = FALSE
  /\ argv = <<>>

\* A second root room, when there is one, holds a snapshot without links; the
\* link records of the repository are those of linkList, at most MaxLinkRecords
Init ==
  /\ \E t \in Trees : \E has \in SUBSET t :
       /\ (<<"room-C">> \in t) => (<<"room-C">> \in has)
       /\ \E n \in 0..MaxLinkRecords :
            \E linkList \in [1..n -> (has \ {<<"room-C">>}) \X RoomNames] :
              fs = InitialTree(t, has, linkList)
  /\ fs0 = fs
  /\ fsRun1 = fs
  /\ WalkerInit

Next ==
  \/ RunFails
  \/ IdentifyRootRoom
  \/ SkipRoom
  \/ ProcessRoom
  \/ CleanupOldWidgets
  \/ CleanupUnreferencedRooms

Spec == Init /\ [][Next]_vars

\* Trees of the unpack / pack / unpack cycle: room-A with or without its child
\* room-B and a second root room-C, room-A linking to room-B, and the clocks
\* of the snapshots drawn from 0..MaxClock
CycleDirs == {<<"room-A">>, <<"room-C">>, <<"room-A", "room-B">>}

CycleClocks ==
  {[clock |-> c, documentClock |-> d, document |-> r, page |-> r, storage |-> r,
    widget |-> r, link |-> r] : c \in 0..MaxClock, d \in 0..MaxClock, r \in 0..MaxClock}

CycleTree(t, has, ck) ==
  [dirs |-> t,
   state |-> [p \in has |->
                Snapshot(Basename(p), <<"W1", "W2">>, {"W1"},
                         IF p = <<"room-A">> THEN <<"room-B">> ELSE <<>>, ck)],
   meta |-> EmptyMap,
   gstore |-> EmptyMap,
   linkinfo |-> EmptyMap,
   widgets |-> [k \in {<<p, <<"widget-", w>>>> : p \in t, w \in {"W1", "W3"}} |->
                  OldWidgetFiles(k[2][2])]]

InitCycle ==
  /\ \E t \in {x \in Trees : x \subseteq CycleDirs} : \E has \in SUBSET t :
       \E ck \in CycleClocks : fs = CycleTree(t, has, ck)
  /\ fs0 = fs
  /\ fsRun1 = fs
  /\ WalkerInit

NextCycle ==
  \/ RunFails
  \/ IdentifyRootRoom
  \/ SkipRoom
  \/ ProcessRoom
  \/ CleanupOldWidgets
  \/ CleanupUnreferencedRooms
  \/ StartPack
  \/ PackRoom
  \/ Rerun

SpecCycle == InitCycle /\ [][NextCycle]_vars

\* Trees of the default-filling runs: the single room room-A, whose snapshot
\* holds one miyagi-widget record; each of state.rotation, state.opacity,
\* state.props.color and state.props.zoomScale is missing, carries the
\* documented default or carries another value
OptionalProps ==
  [rotation : {<<>>, <<0>>, <<90>>}, opacity : {<<>>, <<1>>, <<2>>},
   color : {<<>>, <<"black">>, <<"red">>}, zoomScale : {<<>>, <<1>>, <<2>>}]

DefaultsTree(opt) ==
  [dirs |-> {<<"room-A">>},
   state |-> [p \in {<<"room-A">>} |->
                [Snapshot("room-A", <<>>, {"W1"}, <<>>, BusyClocks) EXCEPT
                   !.documents = @ \o <<WidgetRecWith(<<"shape:", "W1">>, "jsx", "html",
                                                      BusyClocks.widget, opt)>>]],
   meta |-> EmptyMap,
   gstore |-> EmptyMap,
   linkinfo |-> EmptyMap,
   widgets |-> EmptyMap]

InitDefaults ==
  /\ \E opt \in OptionalProps : fs = DefaultsTree(opt)
  /\ fs0 = fs
  /\ fsRun1 = fs
  /\ WalkerInit

NextDefaults ==
  \/ IdentifyRootRoom
  \/ ProcessRoom
  \/ CleanupOldWidgets
  \/ CleanupUnreferencedRooms

SpecDefaults == InitDefaults /\ [][NextDefaults]_vars

\* Trees of the pack runs: room-A with canvas-metadata.json and
\* global-storage.json, its children room-B (with a metadata file of its own)
\* and room-C, the widget directories shape-W1 and shape-W2 of the packer's
\* naming and a complete widget-W3 of the unpacker's naming.

\* the content of template.jsx / template.html of widget w
JsxOf(w) == IF w = "W1" THEN "jsx-W1" ELSE IF w = "W2" THEN "jsx-W2" ELSE "jsx-W3"
HtmlOf(w) == IF w = "W1" THEN "html-W1" ELSE IF w = "W2" THEN "html-W2" ELSE "html-W3"

\* a properties.json with the given shapeId key (<<>> when the key is missing)
PropertiesFile(shapeId, lcc) ==
  [shapeId |-> shapeId, lastChangedClock |-> lcc,
   rotation |-> <<>>, opacity |-> <<>>, color |-> <<>>, zoomScale |-> <<>>]

\* a widget directory with all four files
CompleteWidgetFiles(w, lcc) ==
  [properties |-> <<PropertiesFile(<<"shape:", w>>, lcc)>>,
   jsx |-> <<JsxOf(w)>>, html |-> <<HtmlOf(w)>>, storage |-> <<StorageOf(w)>>]

\* every combination of files a widget directory may hold: properties.json
\* missing, without shapeId, with its own or with another shape id;
\* template.jsx missing, empty or filled; template.html and storage.json
\* missing or present
AnyWidgetFiles(w, lcc) ==
  [properties : {<<>>} \cup {<<PropertiesFile(sid, lcc)>> :
                               sid \in {<<>>, <<"shape:", w>>, <<"shape:", "W9">>}},
   jsx : {<<>>, <<"">>, <<JsxOf(w)>>},
   html : {<<>>, <<HtmlOf(w)>>},
   storage : {<<>>, <<StorageOf(w)>>}]

\* the second widget directory: complete, or without its template source
SomeWidgetFiles(w, lcc) ==
  {CompleteWidgetFiles(w, lcc), [CompleteWidgetFiles(w, lcc) EXCEPT !.jsx = <<>>]}

\* the parentCanvasId of the link descriptor of a child room: none, the
\* parent's room id, or the id of a former parent
DescriptorParents == {"", "room-A", "room-X"}

PackMetadata(roomId, m) ==
  [roomId |-> roomId, pages |-> <<[id |-> PageId, lastChangedClock |-> m]>>,
   generatedAt |-> 0, clock |-> m, documentClock |-> m]

PackTree(files1, files2, parentB, parentC, m, r) ==
  [dirs |-> {<<"room-A">>, <<"room-A", "room-B">>, <<"room-A", "room-C">>},
   state |-> EmptyMap,
   meta |-> [p \in {<<"room-A">>, <<"room-A", "room-B">>} |-> PackMetadata(Basename(p), m)],
   gstore |-> [p \in {<<"room-A">>} |-> "g1"],
   linkinfo |->
     [q \in {x \in {<<"room-A", "room-B">>, <<"room-A", "room-C">>} :
               (IF Basename(x) = "room-B" THEN parentB ELSE parentC) # ""} |->
        [parentCanvasId |-> IF Basename(q) = "room-B" THEN parentB ELSE parentC,
         linkShapeId |-> <<"shape:", IF Basename(q) = "room-B" THEN "L1" ELSE "L2">>,
         lastChangedClock |-> r]],
   widgets |->
     [k \in {<<(<<"room-A">>), <<"shape-", "W1">>>>} \cup
            {<<(<<"room-A">>), <<"shape-", "W2">>>> : x \in files2} \cup
            {<<(<<"room-A">>), <<"widget-", "W3">>>>} |->
        IF k[2] = <<"shape-", "W1">> THEN files1
        ELSE IF k[2] = <<"shape-", "W2">> THEN (CHOOSE x \in files2 : TRUE)
        ELSE CompleteWidgetFiles("W3", r)]]

\* the packer is started on a tree no unpack run is working on
InitPack ==
  /\ \E m \in 0..MaxClock, r \in 0..MaxClock :
       \E files1 \in AnyWidgetFiles("W1", r) :
         \E files2 \in SUBSET SomeWidgetFiles("W2", r) :
           /\ Cardinality(files2) <= 1
           /\ \E parentB \in DescriptorParents, parentC \in DescriptorParents :
                fs = PackTree(files1, files2, parentB, parentC, m, r)
  /\ fs0 = fs
  /\ fsRun1 = fs
  /\ pc = "done"
  /\ queue = <<>>
  /\ referencedRooms = {}
  /\ unreferencedRoomDirs = {}
  /\ processedWidgets = {}
  /\ unpacked = {}
  /\ everQueued = {}
  /\ packQueue = <<>>
  /\ rmFails = NoRmFails
  /\ now = 1
  /\ runs = 1
  /\ packed = FALSE
  /\ unpackLog = <<>>
  /\ queueLog = <<>>
  /\ repoPath = HomeRepo
  /\ childRoom = <<>>
  /\ packedAtProvision = FALSE
  /\ argv = <<>>

NextPack ==
  \/ StartPack
  \/ PackRoom

SpecPack == InitPack /\ [][NextPack]_vars

\* Trees of the runs with failures: room-A, the only root room, holds a
\* well-formed snapshot with a link to room-B and possibly one to room-C;
\* below it some of room-B, room-C and room-B/room-C, with a well-formed, a
\* malformed or no canvas-state.json; room-B may link to room-C.  fs.rmSync
\* throws on at most one widget directory and on at most one room directory.
FaultDirs ==
  {<<"room-A">>, <<"room-A", "room-B">>, <<"room-A", "room-C">>,
   <<"room-A", "room-B", "room-C">>}

\* a canvas-state.json that JSON.parse rejects
MalformedSnapshot == [malformed |-> TRUE]

FaultTree(t, has, bad, linkList) ==
  [InitialTree(t, has, linkList) EXCEPT
     !.state = [p \in has |-> IF p \in bad THEN MalformedSnapshot ELSE @[p]]]

\* the link records of the trees with failures
FaultLinkLists ==
  {<<(<<(<<"room-A">>), "room-B">>)>>,
   <<(<<(<<"room-A">>), "room-B">>), (<<(<<"room-A">>), "room-C">>)>>,
   <<(<<(<<"room-A">>), "room-B">>), (<<(<<"room-A", "room-B">>), "room-C">>)>>}

InitFault ==
  /\ \E t \in {x \in Trees : <<"room-A">> \in x /\ x \subseteq FaultDirs} :
       \E has \in SUBSET t : \E bad \in SUBSET (has \ {<<"room-A">>}) :
         /\ <<"room-A">> \in has
         /\ \E linkList \in FaultLinkLists :
              /\ \A i \in 1..Len(linkList) : linkList[i][1] \in has \ bad
              /\ fs = FaultTree(t, has, bad, linkList)
  /\ \E ws \in SUBSET FindShapeDirectories(fs) : \E rs \in SUBSET (fs.dirs \ {<<"room-A">>}) :
       /\ Cardinality(ws) <= 1 /\ Cardinality(rs) <= 1
       /\ rmFails = [widgets |-> ws, rooms |-> rs]
  /\ fs0 = fs
  /\ fsRun1 = fs
  /\ pc = "start"
  /\ queue = <<>>
  /\ referencedRooms = {}
  /\ unreferencedRoomDirs = {}
  /\ processedWidgets = {}
  /\ unpacked = {}
  /\ everQueued = {}
  /\ packQueue = <<>>
  /\ now = 1
  /\ runs = 1
  /\ packed = FALSE
  /\ unpackLog = <<>>
  /\ queueLog = <<>>
  /\ repoPath = HomeRepo
  /\ childRoom = <<>>
  /\ packedAtProvision = FALSE
  /\ argv = <<>>

NextFault ==
  \/ IdentifyRootRoom
  \/ SkipRoom
  \/ ProcessRoom
  \/ UnpackRoomThrows
  \/ CleanupOldWidgets
  \/ CleanupUnreferencedRooms

SpecFault == InitFault /\ [][NextFault]_vars

\* The delete-room command: the repository is checked out in /home/repo or in
\* /home/room-projects/repo; room-A is the root room, below it some of
\* room-B, room-C and room-B/room-C; no other script is running
InitDelete ==
  /\ \E t \in {x \in Trees : <<"room-A">> \in x /\ x \subseteq FaultDirs} :
       fs = InitialTree(t, t, <<>>)
  /\ repoPath \in {HomeRepo, <<"home", "room-projects", "repo">>}
  /\ childRoom = <<>>
  /\ packedAtProvision = FALSE
  /\ argv = <<>>
  /\ fs0 = fs
  /\ fsRun1 = fs
  /\ pc = "done"
  /\ queue = <<>>
  /\ referencedRooms = {}
  /\ unreferencedRoomDirs = {}
  /\ processedWidgets = {}
  /\ unpacked = {}
  /\ everQueued = {}
  /\ packQueue = <<>>
  /\ rmFails = NoRmFails
  /\ now = 1
  /\ runs = 1
  /\ packed = FALSE
  /\ unpackLog = <<>>
  /\ queueLog = <<>>

NextDelete == DeleteRoom

SpecDelete == InitDelete /\ [][NextDelete]_vars

\* Trees of the walks with cycles: room-A, the root room, and its child
\* room-B, with or without room-A/room-C, room-A/room-B/room-C and a
\* directory room-A/room-B/room-A named like the root; every room holds a
\* snapshot; room-A and room-A/room-B hold up to MaxWalkLinks link records
\* between them, to any room id, their own and their ancestors' included
WalkDirs ==
  {<<"room-A">>, <<"room-A", "room-B">>, <<"room-A", "room-C">>,
   <<"room-A", "room-B", "room-C">>, <<"room-A", "room-B", "room-A">>}

InitWalk ==
  /\ \E t \in {x \in Trees : {<<"room-A">>, <<"room-A", "room-B">>} \subseteq x
                             /\ x \subseteq WalkDirs} :
       \E n \in 0..MaxWalkLinks :
         \E linkList \in [1..n -> {<<"room-A">>, <<"room-A", "room-B">>} \X RoomNames] :
           fs = InitialTree(t, t, linkList)
  /\ fs0 = fs
  /\ fsRun1 = fs
  /\ WalkerInit

NextWalk ==
  \/ IdentifyRootRoom
  \/ SkipRoom
  \/ ProcessRoom
  \/ CleanupOldWidgets
  \/ CleanupUnreferencedRooms

\* the script runs to its end: no step of it waits for anything
SpecWalk == InitWalk /\ [][NextWalk]_vars /\ WF_vars(NextWalk)

\* Interrupted runs: room-A, the only root room, holds a snapshot; below it
\* some of room-B, room-C and room-B/room-C, with or without a snapshot; up to
\* MaxLinkRecords link records in the rooms with a snapshot, to any room id.
\* The run is killed at any file system call and started again.
InitCrash ==
  /\ \E t \in {x \in Trees : <<"room-A">> \in x /\ x \subseteq FaultDirs} :
       \E has \in SUBSET t :
         /\ <<"room-A">> \in has
         /\ \E n \in 0..MaxLinkRecords : \E linkList \in [1..n -> has \X RoomNames] :
              fs = InitialTree(t, has, linkList)
  /\ fs0 = fs
  /\ fsRun1 = fs
  /\ WalkerInit

NextCrash ==
  \/ IdentifyRootRoom
  \/ SkipRoom
  \/ ProcessRoom
  \/ CleanupOldWidgets
  \/ CleanupUnreferencedRooms
  \/ CrashInUnpackRoom
  \/ CrashInCleanupOldWidgets
  \/ CrashInCleanupUnreferencedRooms
  \/ RunAfterCrash

SpecCrash == InitCrash /\ [][NextCrash]_vars

\* Trees packed in any order: room-A, room-A/room-B, room-A/room-C and
\* room-A/room-B/room-C; canvas-metadata.json in the rooms of metaIn; a link
\* descriptor in every child room, naming its parent, a room above its parent,
\* a former parent, or missing; one widget directory per room; snapshot files
\* of an earlier packing in the rooms of old
PackOrderTree(metaIn, parentB, parentC, parentBC, old) ==
  LET parentOf(q) == IF q = <<"room-A", "room-B">> THEN parentB
                     ELSE IF q = <<"room-A", "room-C">> THEN parentC ELSE parentBC
  IN [dirs |-> FaultDirs,
      state |-> [p \in old |-> Snapshot(Basename(p), <<"W3">>, {}, <<>>, BusyClocks)],
      meta |-> [p \in metaIn |-> PackMetadata(Basename(p), Len(p))],
      gstore |-> [p \in {<<"room-A">>, <<"room-A", "room-B">>} |->
                    IF Len(p) = 1 THEN "g1" ELSE "g2"],
      linkinfo |-> [q \in {x \in FaultDirs \ {<<"room-A">>} : parentOf(x) # ""} |->
                     [parentCanvasId |-> parentOf(q),
                      linkShapeId |-> <<"shape:", LinkNameOrder[Len(q)]>>,
                      lastChangedClock |-> Len(q)]],
      widgets |-> [k \in {<<p, <<"shape-", WidgetNameOrder[Len(p)]>>>> : p \in FaultDirs} |->
                     CompleteWidgetFiles(k[2][2], Len(k[1]))]]

InitPackOrder ==
  /\ \E metaIn \in SUBSET FaultDirs, old \in {{}, FaultDirs} :
       \E parentB \in {"", "room-A"}, parentC \in {"room-A", "room-X"},
          parentBC \in {"room-B", "room-A"} :
         fs = PackOrderTree(metaIn, parentB, parentC, parentBC, old)
  /\ fs0 = fs
  /\ fsRun1 = fs
  /\ pc = "done"
  /\ queue = <<>>
  /\ referencedRooms = {}
  /\ unreferencedRoomDirs = {}
  /\ processedWidgets = {}
  /\ unpacked = {}
  /\ everQueued = {}
  /\ packQueue = <<>>
  /\ rmFails = NoRmFails
  /\ now = 1
  /\ runs = 1
  /\ packed = FALSE
  /\ unpackLog = <<>>
  /\ queueLog = <<>>
  /\ repoPath = HomeRepo
  /\ childRoom = <<>>
  /\ packedAtProvision = FALSE
  /\ argv = <<>>

NextPackOrder ==
  \/ StartPack
  \/ PackAnyRoom

SpecPackOrder == InitPackOrder /\ [][NextPackOrder]_vars

\* Provisioning between the runs: room-A, the root room, with or without its
\* child room-B; room-A holds a snapshot, room-B may; up to MaxLinkRecords link
\* records to room-A or room-B.  After the first unpack run a child room is
\* made under any room, before or after the pack run, and the unpack script
\* runs again.
InitProvision ==
  /\ \E t \in {{<<"room-A">>}, {<<"room-A">>, <<"room-A", "room-B">>}} :
       \E has \in SUBSET t :
         /\ <<"room-A">> \in has
         /\ \E n \in 0..MaxLinkRecords :
              \E linkList \in [1..n -> has \X {"room-A", "room-B"}] :
                fs = InitialTree(t, has, linkList)
  /\ fs0 = fs
  /\ fsRun1 = fs
  /\ WalkerInit

NextProvision ==
  \/ IdentifyRootRoom
  \/ SkipRoom
  \/ ProcessRoom
  \/ CleanupOldWidgets
  \/ CleanupUnreferencedRooms
  \/ GenerateChildRoom
  \/ StartPack
  \/ PackRoom
  \/ Rerun

SpecProvision == InitProvision /\ [][NextProvision]_vars

-----------------------------------------------------------------------------
(* Vocabulary of the claims *)

DirA == <<"room-A">>
DirC == <<"room-C">>
DirAB == <<"room-A", "room-B">>
DirAC == <<"room-A", "room-C">>
DirABC == <<"room-A", "room-B", "room-C">>

\* the canvas-link records in the snapshot file of room P of a tree
LinksOf(tree, P) ==
  IF P \in DOMAIN tree.state THEN CanvasLinks(tree.state[P].documents) ELSE <<>>

\* the link targets of room P, in record order
LinkTargets(tree, P) ==
  [i \in 1..Len(LinksOf(tree, P)) |-> LinksOf(tree, P)[i].targetCanvasId]

HasLinkTo(tree, P, T) == \E l \in Range(LinksOf(tree, P)) : l.targetCanvasId = T

\* R is a root room, or every step of the path from the root room to R is
\* named by a canvas-link record in the snapshot file of the room above
RECURSIVE LinkPath(_, _)
LinkPath(tree, R) ==
  \/ Len(R) = 1
  \/ /\ HasLinkTo(tree, Dirname(R), Basename(R))
     /\ LinkPath(tree, Dirname(R))

\* the same, counting only link records of rooms unpacked in this run
RECURSIVE DiscoveredLinkPath(_)
DiscoveredLinkPath(R) ==
  \/ Len(R) = 1
  \/ /\ Dirname(R) \in unpacked
     /\ HasLinkTo(fs0, Dirname(R), Basename(R))
     /\ DiscoveredLinkPath(Dirname(R))

\* the widget directory named after the shape id of a miyagi-widget record of
\* the snapshot file of room P
RecordedWidget(tree, P, name) ==
  /\ P \in DOMAIN tree.state
  /\ \E w \in Range(WidgetRecords(tree.state[P].documents)) : WidgetDirName(w.id) = name

\* every widget directory name of the model
WidgetDirNames == {<<"widget-", WidgetNameOrder[i]>> : i \in 1..Len(WidgetNameOrder)}

FirstRun == runs = 1 /\ ~packed

-----------------------------------------------------------------------------
(* C1: after a completed unpack run, a room directory that existed before   *)
(* the run still exists if and only if it is the root room or a path of     *)
(* canvas-link records discovered during the run leads from the root to it. *)
C1_RetainedIffLinked ==
  (FirstRun /\ pc = "done") =>
    \A R \in fs0.dirs : (R \in fs.dirs) <=> DiscoveredLinkPath(R)

(* C2: after a completed unpack run, a widget directory exists if and only  *)
(* if its room was unpacked in this run and its shape id is a miyagi-widget *)
(* record of that room's snapshot file.                                     *)
C2_WidgetRetainedIffRecorded ==
  (FirstRun /\ pc = "done") =>
    \A P \in fs0.dirs : \A name \in WidgetDirNames :
      (<<P, name>> \in DOMAIN fs.widgets)
        <=> (P \in unpacked /\ RecordedWidget(fs0, P, name))

\* a completed run that created a widget directory, removed a stale one of an
\* unpacked room and removed the recorded one of a room it did not unpack
C2_Witness ==
  /\ FirstRun /\ pc = "done"
  /\ \E P \in unpacked :
       /\ <<P, <<"widget-", "W2">>>> \in DOMAIN fs.widgets \ DOMAIN fs0.widgets
       /\ <<P, <<"widget-", "W3">>>> \in DOMAIN fs0.widgets \ DOMAIN fs.widgets
  /\ \E Q \in fs.dirs \ unpacked :
       /\ RecordedWidget(fs0, Q, <<"widget-", "W1">>)
       /\ <<Q, <<"widget-", "W1">>>> \in DOMAIN fs0.widgets \ DOMAIN fs.widgets

(* C3: an unpack run deletes no room directory that is reachable by links   *)
(* from the root and no widget directory of such a room whose shape id is   *)
(* recorded in the room's snapshot file.                                    *)
C3_NothingReferencedDestroyed ==
  FirstRun =>
    \A R \in fs0.dirs : LinkPath(fs0, R) =>
      /\ R \in fs.dirs
      /\ \A name \in WidgetDirNames :
           (<<R, name>> \in DOMAIN fs0.widgets /\ RecordedWidget(fs0, R, name))
             => <<R, name>> \in DOMAIN fs.widgets

(* C4: with zero or several room-* directories under the repository root    *)
(* the run aborts before any room is unpacked and leaves the tree unchanged.*)
C4_AbortLeavesTreeUnchanged ==
  (FirstRun /\ Cardinality(RootRoomDirs(fs0)) # 1) =>
    /\ pc \in {"start", "failed"}
    /\ fs = fs0
    /\ unpacked = {}
    /\ queue = <<>>

\* the run has aborted on a tree with two root rooms that hold snapshot files
C4_Witness ==
  /\ FirstRun /\ pc = "failed"
  /\ {DirA, DirC} \subseteq fs0.dirs
  /\ DirA \in DOMAIN fs0.state
  /\ LinksOf(fs0, DirA) # <<>>

(* C5: a canvas-link whose target directory does not exist under the        *)
(* current room gets no link-descriptor file and its target path is not     *)
(* enqueued.                                                               *)
C5_MissingTargetNotEnqueued ==
  FirstRun =>
    \A P \in unpacked : \A l \in Range(LinksOf(fs0, P)) :
      Join(P, l.targetCanvasId) \notin fs0.dirs =>
        /\ Join(P, l.targetCanvasId) \notin DOMAIN fs.linkinfo
        /\ Join(P, l.targetCanvasId) \notin everQueued

(* C5 as amended: such a link gets no link-descriptor file; its target path  *)
(* is enqueued when the target's room id has not been visited, but the      *)
(* dequeued path has no snapshot file and is skipped: nothing is unpacked,  *)
(* written or created under it, and the run does not fail.                  *)
C5_MissingTargetSkipped ==
  FirstRun =>
    \A P \in unpacked : \A l \in Range(LinksOf(fs0, P)) :
      Join(P, l.targetCanvasId) \notin fs0.dirs =>
        /\ Join(P, l.targetCanvasId) \notin DOMAIN fs.linkinfo
        /\ Join(P, l.targetCanvasId) \notin unpacked
        /\ Join(P, l.targetCanvasId) \notin fs.dirs
        /\ Join(P, l.targetCanvasId) \notin DOMAIN fs.meta
        /\ \A k \in DOMAIN fs.widgets : k[1] # Join(P, l.targetCanvasId)
        /\ pc # "failed"

\* a run that enqueued the path of a missing link target and completed
C5_Witness ==
  /\ FirstRun /\ pc = "done"
  /\ \E P \in unpacked : \E l \in Range(LinksOf(fs0, P)) :
       /\ Join(P, l.targetCanvasId) \notin fs0.dirs
       /\ Join(P, l.targetCanvasId) \in everQueued

(* C6: for every canvas-link record of an unpacked room P whose target      *)
(* directory P/T exists, P/T/canvas-link-info.json exists with              *)
(* parentCanvasId = P's room name and linkShapeId = the record's id, and no *)
(* link-descriptor file is written into P's own directory.                  *)
C6_DescriptorPerLinkRecord ==
  FirstRun =>
    \A P \in unpacked :
      /\ \A l \in Range(LinksOf(fs0, P)) :
           Join(P, l.targetCanvasId) \in fs0.dirs =>
             /\ Join(P, l.targetCanvasId) \in DOMAIN fs.linkinfo
             /\ fs.linkinfo[Join(P, l.targetCanvasId)].parentCanvasId = Basename(P)
             /\ fs.linkinfo[Join(P, l.targetCanvasId)].linkShapeId = l.id
      /\ (P \in DOMAIN fs.linkinfo) => (Len(P) > 1 /\ Dirname(P) \in unpacked)

\* room-A links to room-B, room-B links to room-C
ChainABC(tree) ==
  /\ {DirA, DirAB, DirABC} \subseteq tree.dirs
  /\ {DirA, DirAB} \subseteq DOMAIN tree.state
  /\ LinkTargets(tree, DirA) = <<"room-B">>
  /\ LinkTargets(tree, DirAB) = <<"room-C">>

(* C7: room-A links to room-B, room-B links to room-C, and a stray room-C   *)
(* with no incoming link is a sibling directory of room-A: the run          *)
(* completes, deletes the stray room-C and retains room-B/room-C.           *)
C7_StraySiblingOfRootDeleted ==
  (FirstRun /\ ChainABC(fs0) /\ DirC \in fs0.dirs /\ pc \in {"done", "failed"}) =>
    /\ pc = "done"
    /\ DirC \notin fs.dirs
    /\ DirABC \in fs.dirs

(* C7 as amended: with the stray room-C a child of room-A (a sibling of      *)
(* room-B) and room-A the only root room, the run completes, deletes         *)
(* room-A/room-C and retains room-A/room-B/room-C.                           *)
C7_StrayChildDeleted ==
  (FirstRun /\ ChainABC(fs0) /\ DirAC \in fs0.dirs /\ DirC \notin fs0.dirs) =>
    /\ pc # "failed"
    /\ pc = "done" => (DirAC \notin fs.dirs /\ DirABC \in fs.dirs)

\* the run has completed on the amended scenario
C7_Witness ==
  /\ FirstRun /\ ChainABC(fs0) /\ DirAC \in fs0.dirs /\ DirC \notin fs0.dirs
  /\ pc = "done"
  /\ DirABC \in unpacked

\* the widget directories of room P in a tree
WidgetDirsOf(tree, P) == {k \in DOMAIN tree.widgets : k[1] = P}

(* C8: round trip: packing a room produced by the unpacker and unpacking    *)
(* the produced snapshot yields the same widget directories, the same link  *)
(* descriptors in the child rooms and the same storage content, with        *)
(* template source and template output unchanged.                           *)
C8_RoundTrip ==
  (runs = 2 /\ packed /\ pc = "done") =>
    \A P \in DOMAIN fsRun1.meta :
      /\ WidgetDirsOf(fs, P) = WidgetDirsOf(fsRun1, P)
      /\ \A k \in WidgetDirsOf(fs, P) \cap WidgetDirsOf(fsRun1, P) :
           /\ fs.widgets[k].jsx = fsRun1.widgets[k].jsx
           /\ fs.widgets[k].html = fsRun1.widgets[k].html
           /\ fs.widgets[k].storage = fsRun1.widgets[k].storage
      /\ P \in DOMAIN fs.gstore /\ fs.gstore[P] = fsRun1.gstore[P]
      /\ \A Q \in RoomDirectoriesInPath(fsRun1, P) :
           /\ (Q \in DOMAIN fs.linkinfo) <=> (Q \in DOMAIN fsRun1.linkinfo)
           /\ (Q \in DOMAIN fs.linkinfo /\ Q \in DOMAIN fsRun1.linkinfo)
                => fs.linkinfo[Q] = fsRun1.linkinfo[Q]

(* C9: a second unpack run on the tree left by a first completed run, with  *)
(* the same snapshot files, creates, changes and deletes nothing.           *)
C9_SecondRunChangesNothing ==
  (runs = 2 /\ ~packed) => fs = fsRun1

\* the records the claim C10 speaks of
IsCoreRecord(d) == IsDocument(d) \/ IsPage(d) \/ IsStorage(d) \/ IsWidget(d) \/ IsLink(d)

(* C10: the snapshot obtained by unpacking a snapshot S and packing the     *)
(* room again holds, for every document, page, storage, widget and link     *)
(* record of S, a record with the same id and lastChangedClock, and has the *)
(* same top-level clock and documentClock, also for clock values of 0.      *)
C10_IdsAndClocksSurvive ==
  (runs = 1 /\ pc = "packed") =>
    \A P \in DOMAIN fs.meta :
      /\ fs.state[P].clock = fsRun1.state[P].clock
      /\ fs.state[P].documentClock = fsRun1.state[P].documentClock
      /\ \A r \in Range(fsRun1.state[P].documents) : IsCoreRecord(r) =>
           \E r2 \in Range(fs.state[P].documents) :
             r2.id = r.id /\ r2.lastChangedClock = r.lastChangedClock

\* the properties.json the run wrote for the widget record w of room P
WrittenProperties(P, w) == fs.widgets[<<P, WidgetDirName(w.id)>>].properties[1]

(* C11: unpacking a widget record that lacks rotation, opacity, color or    *)
(* zoomScale writes a properties.json in which the missing field carries    *)
(* its documented default (0, 1, "black", 1); no optional field is absent.  *)
C11_MissingFieldsGetDefaults ==
  FirstRun =>
    \A P \in unpacked : \A w \in Range(WidgetRecords(fs0.state[P].documents)) :
      /\ WrittenProperties(P, w).rotation = <<OptNum(w.rotation, 0)>>
      /\ WrittenProperties(P, w).opacity = <<OptNum(w.opacity, 1)>>
      /\ WrittenProperties(P, w).color = <<OptStr(w.color, "black")>>
      /\ WrittenProperties(P, w).zoomScale = <<OptNum(w.zoomScale, 1)>>

-----------------------------------------------------------------------------
(* Vocabulary of the claims about the packer *)

\* generateRoomCanvasState(P) has run in the current pack run
PackerDone(P) ==
  /\ packed
  /\ pc \in {"pack", "packed"}
  /\ P \in DOMAIN fs0.meta
  /\ P \notin Range(packQueue)

\* the widget directories of room P the packer scans
ShapeDirsOf(tree, P) ==
  {k \in DOMAIN tree.widgets : k[1] = P /\ StartsWith(k[2], "shape-")}

\* the shape id under which the widget of directory k is packed
IdOfDir(tree, k) ==
  IF tree.widgets[k].properties = <<>> THEN ShapeIdOfDir(k[2])
  ELSE OrId(tree.widgets[k].properties[1].shapeId, ShapeIdOfDir(k[2]))

\* the four files are present and the two templates are not empty
IsComplete(files) ==
  /\ files.properties # <<>> /\ files.storage # <<>>
  /\ files.jsx # <<>> /\ files.jsx # <<"">>
  /\ files.html # <<>> /\ files.html # <<"">>

\* the widget records and the storage map of the snapshot packed for room P
PackedWidgets(P) == WidgetRecords(fs.state[P].documents)
PackedWidgetIds(P) == {d.id : d \in Range(PackedWidgets(P))}
PackedStorage(P) == RoomWidgetStorage(fs.state[P].documents)

AllFourPresent(files) ==
  files.properties # <<>> /\ files.jsx # <<>> /\ files.html # <<>> /\ files.storage # <<>>

(* C13: the packer includes a widget directory in the room snapshot if and  *)
(* only if properties.json, template source, template output and            *)
(* storage.json are all present; a directory missing one of them            *)
(* contributes nothing to the snapshot.                                     *)
C13_IncludedIffAllFourPresent ==
  \A P \in DOMAIN fs0.meta : PackerDone(P) =>
    \A k \in ShapeDirsOf(fs0, P) :
      /\ (IdOfDir(fs0, k) \in PackedWidgetIds(P)) <=> AllFourPresent(fs0.widgets[k])
      /\ ~AllFourPresent(fs0.widgets[k]) =>
           \A e \in PackedStorage(P) : e[1] # IdOfDir(fs0, k)

\* the link records of the snapshot packed for room P
PackedLinks(P) == CanvasLinks(fs.state[P].documents)

(* C14: when room R is packed, the link descriptor of an immediate child    *)
(* room becomes a link record of R's snapshot if and only if its            *)
(* parentCanvasId equals R's room id; a stale descriptor is never emitted.  *)
C14_DescriptorEmittedIffParentMatches ==
  \A R \in DOMAIN fs0.meta : PackerDone(R) =>
    /\ \A Q \in RoomDirectoriesInPath(fs0, R) :
         (\E l \in Range(PackedLinks(R)) : l.targetCanvasId = Basename(Q))
           <=> (Q \in DOMAIN fs0.linkinfo /\ fs0.linkinfo[Q].parentCanvasId = Basename(R))
    /\ \A l \in Range(PackedLinks(R)) :
         /\ Join(R, l.targetCanvasId) \in DOMAIN fs0.linkinfo
         /\ fs0.linkinfo[Join(R, l.targetCanvasId)].parentCanvasId = Basename(R)
         /\ l.id = fs0.linkinfo[Join(R, l.targetCanvasId)].linkShapeId

\* room-A has been packed with a descriptor naming room-A in room-B and a
\* stale descriptor naming another parent in room-C
C14_Witness ==
  /\ PackerDone(DirA)
  /\ {DirAB, DirAC} \subseteq DOMAIN fs0.linkinfo
  /\ fs0.linkinfo[DirAB].parentCanvasId = "room-A"
  /\ fs0.linkinfo[DirAC].parentCanvasId = "room-X"
  /\ LinkTargets(fs, DirA) = <<"room-B">>

\* the clock stored on disk for record d of the snapshot packed for room P,
\* 0 when none is stored: documentClock and pages[0].lastChangedClock of
\* canvas-metadata.json, lastChangedClock of properties.json and of
\* canvas-link-info.json; no file of the model stores a clock for the storage record
StoredClock(P, d) ==
  IF IsDocument(d) THEN fs0.meta[P].documentClock
  ELSE IF IsPage(d)
    THEN (IF fs0.meta[P].pages = <<>> THEN 0 ELSE fs0.meta[P].pages[1].lastChangedClock)
  ELSE IF IsStorage(d) THEN 0
  ELSE IF IsWidget(d)
    THEN fs0.widgets[CHOOSE k \in ShapeDirsOf(fs0, P) :
                       fs0.widgets[k].properties # <<>> /\ IdOfDir(fs0, k) = d.id
                    ].properties[1].lastChangedClock
  ELSE fs0.linkinfo[Join(P, d.targetCanvasId)].lastChangedClock

(* C15: in a packed snapshot every record whose own clock is not stored     *)
(* gets as lastChangedClock its position in the record list plus one        *)
(* constant offset, the same for document, page, storage, widget and link   *)
(* records.                                                                 *)
C15_OneOffsetForAllKinds ==
  \A P \in DOMAIN fs0.meta : PackerDone(P) =>
    LET docs == fs.state[P].documents
    IN \E offset \in (0 - Len(docs) - 2)..(Len(docs) + 2) :
         \A i \in 1..Len(docs) :
           StoredClock(P, docs[i]) = 0 => docs[i].lastChangedClock = i + offset

(* C15 as amended: a widget or link record whose own clock is not stored    *)
(* gets its position in the record list minus 1 (its index among the shape  *)
(* records plus 2); the document record gets 2, the page record 0 and the   *)
(* storage record the number of widget and link records plus 2.             *)
C15_DefaultClockPerKind ==
  \A P \in DOMAIN fs0.meta : PackerDone(P) =>
    LET docs == fs.state[P].documents
    IN \A i \in 1..Len(docs) :
         StoredClock(P, docs[i]) = 0 =>
           docs[i].lastChangedClock =
             IF IsDocument(docs[i]) THEN 2
             ELSE IF IsPage(docs[i]) THEN 0
             ELSE IF IsStorage(docs[i])
               THEN Len(PackedWidgets(P)) + Len(PackedLinks(P)) + 2
             ELSE i - 1

\* room-A has been packed with no clock stored anywhere, and its snapshot
\* holds two widget records and two link records
C15_Witness ==
  /\ PackerDone(DirA)
  /\ Len(PackedWidgets(DirA)) = 2 /\ Len(PackedLinks(DirA)) = 2
  /\ \A d \in Range(fs.state[DirA].documents) : StoredClock(DirA, d) = 0

\* the place in readdirSync order of the widget directory a packed widget
\* record was read from, told by its template source, and of a room name
ScanIndexOfWidget(d) ==
  CHOOSE n \in 1..Len(WidgetNameOrder) : d.jsxContent = JsxOf(WidgetNameOrder[n])
ScanIndexOfRoom(name) ==
  CHOOSE n \in 1..Len(RoomNameOrder) : RoomNameOrder[n] = name

(* C16: the record list of a packed snapshot is one document record, one    *)
(* page record, one storage record, then the widget records in              *)
(* directory-scan order, then the link records in directory-scan order.     *)
C16_RecordListOrder ==
  \A P \in DOMAIN fs0.meta : PackerDone(P) =>
    LET docs == fs.state[P].documents
    IN /\ Len(docs) >= 3
       /\ IsDocument(docs[1]) /\ IsPage(docs[2]) /\ IsStorage(docs[3])
       /\ \A i \in 4..Len(docs) : IsWidget(docs[i]) \/ IsLink(docs[i])
       /\ \A i \in 4..Len(docs) : \A j \in (i + 1)..Len(docs) :
            /\ IsLink(docs[i]) => IsLink(docs[j])
            /\ (IsWidget(docs[i]) /\ IsWidget(docs[j])) =>
                 ScanIndexOfWidget(docs[i]) < ScanIndexOfWidget(docs[j])
            /\ (IsLink(docs[i]) /\ IsLink(docs[j])) =>
                 ScanIndexOfRoom(docs[i].targetCanvasId)
                   < ScanIndexOfRoom(docs[j].targetCanvasId)

\* room-A has been packed from two complete widget directories and two
\* descriptors that name it
C16_Witness ==
  /\ PackerDone(DirA)
  /\ [i \in 1..Len(PackedWidgets(DirA)) |-> PackedWidgets(DirA)[i].jsxContent]
       = <<"jsx-W1", "jsx-W2">>
  /\ LinkTargets(fs, DirA) = <<"room-B", "room-C">>

(* C17: in a packed snapshot the keys of the storage record's               *)
(* widget-storage map are exactly the ids of the snapshot's widget records. *)
C17_StorageKeysAreWidgetIds ==
  \A P \in DOMAIN fs0.meta : PackerDone(P) =>
    {e[1] : e \in PackedStorage(P)} = PackedWidgetIds(P)

\* room-A has been packed with a widget whose properties.json names another
\* shape id than its directory, and with a widget without storage.json
C17_Witness ==
  /\ PackerDone(DirA)
  /\ <<"shape:", "W9">> \in PackedWidgetIds(DirA)
  /\ <<"shape:", "W2">> \in PackedWidgetIds(DirA)
  /\ fs0.widgets[<<DirA, <<"shape-", "W1">>>>].storage = <<>>

-----------------------------------------------------------------------------
(* Vocabulary of the claims about failures *)

\* P was taken from the queue in this run and has no canvas-state.json
SkippedRoom(P) ==
  /\ P \in everQueued
  /\ P \notin Range(queue)
  /\ P \notin DOMAIN fs0.state

\* nothing in room P differs from what was there before the run, the
\* canvas-link-info.json its parent writes into it aside
NothingWrittenIn(P) ==
  /\ P \in DOMAIN fs.meta => (P \in DOMAIN fs0.meta /\ fs.meta[P] = fs0.meta[P])
  /\ P \in DOMAIN fs.gstore => (P \in DOMAIN fs0.gstore /\ fs.gstore[P] = fs0.gstore[P])
  /\ \A k \in WidgetDirsOf(fs, P) : k \in DOMAIN fs0.widgets /\ fs.widgets[k] = fs0.widgets[k]
  /\ \A Q \in RoomDirectoriesInPath(fs, P) :
       Q \in DOMAIN fs.linkinfo => (Q \in DOMAIN fs0.linkinfo /\ fs.linkinfo[Q] = fs0.linkinfo[Q])

\* both cleanup passes have done their work
CleanedUp ==
  /\ OldWidgets(fs, processedWidgets) = {}
  /\ unreferencedRoomDirs \cap fs.dirs = {}

(* C18: when a dequeued room has no snapshot file the walker writes nothing *)
(* in that room, follows no link from it, goes on with the rest of the      *)
(* queue, and the run performs both cleanup passes and ends successfully.   *)
C18_MissingSnapshotSkipped ==
  (FirstRun /\ \E P \in everQueued : SkippedRoom(P)) =>
    /\ \A P \in everQueued : SkippedRoom(P) =>
         /\ P \notin unpacked
         /\ NothingWrittenIn(P)
         /\ \A Q \in everQueued : Len(Q) > 1 => Dirname(Q) # P
    /\ pc \in {"traverse", "cleanWidgets", "cleanRooms", "done"}
    /\ pc = "traverse" => queue # <<>>
    /\ pc = "done" =>
         /\ CleanedUp
         /\ \A Q \in everQueued : Q \in DOMAIN fs0.state => Q \in unpacked

\* room-A links to room-B and room-C; room-B, dequeued first, had no snapshot
\* file, room-C was unpacked after it and the run has ended
C18_Witness ==
  /\ FirstRun /\ pc = "done"
  /\ LinkTargets(fs0, DirA) = <<"room-B", "room-C">>
  /\ DirAB \in fs0.dirs /\ SkippedRoom(DirAB)
  /\ DirAC \in unpacked

\* P was taken from the queue in this run and its canvas-state.json is malformed
MalformedRoomDequeued(P) ==
  /\ P \in everQueued
  /\ P \notin Range(queue)
  /\ P \in DOMAIN fs0.state
  /\ IsMalformed(fs0.state[P])

(* C19: when one room's snapshot file is malformed JSON only that room's    *)
(* processing is abandoned: every other room still in the queue is          *)
(* unpacked and the run carries on.                                         *)
C19_MalformedRoomAloneAbandoned ==
  (FirstRun /\ rmFails = NoRmFails /\ \E P \in everQueued : MalformedRoomDequeued(P)) =>
    /\ pc # "failed"
    /\ pc = "done" =>
         \A Q \in everQueued :
           (Q \in DOMAIN fs0.state /\ ~IsMalformed(fs0.state[Q])) => Q \in unpacked

\* no canvas-state.json of the tree is malformed
NoMalformed(tree) == \A P \in DOMAIN tree.state : ~IsMalformed(tree.state[P])

(* C20: in the widget pass and in the room pass a failure to delete one     *)
(* directory does not stop the deletion of the others: every other          *)
(* directory due for deletion is still deleted.                             *)
C20_OtherDirectoriesStillDeleted ==
  (FirstRun /\ NoMalformed(fs0) /\ pc \in {"done", "failed"}) =>
    /\ \A k \in FindShapeDirectories(fs0) \ processedWidgets :
         k \notin rmFails.widgets => k \notin DOMAIN fs.widgets
    /\ \A R \in unreferencedRoomDirs \ rmFails.rooms : R \notin fs.dirs

-----------------------------------------------------------------------------
(* C21: the delete-room command never deletes the root room: whatever       *)
(* absolute path it is given, the room-* directory directly under the       *)
(* repository root is still there afterwards, a directory is deleted only   *)
(* when the path holds at least two room-* segments, and a refused call     *)
(* deletes nothing.                                                         *)
C21_RootRoomNeverDeleted ==
  pc \in {"deleted", "refused"} =>
    /\ RootRoomDirs(fs0) \subseteq fs.dirs
    /\ pc = "deleted" => CountRoomOccurrences(argv) >= 2
    /\ pc = "refused" => fs = fs0

(* C22: packing tolerates an absent canvas-metadata.json: after a pack run  *)
(* every room directory holds a snapshot file, and the snapshot of a room   *)
(* without metadata file is built from the defaults (roomId                 *)
(* "room-generated", document clock 2, page id page:page, page clock 0).    *)
C22_RoomWithoutMetadataPacked ==
  (packed /\ pc = "packed") =>
    \A R \in fs0.dirs :
      /\ R \in DOMAIN fs.state
      /\ R \notin DOMAIN fs0.meta =>
           LET docs == fs.state[R].documents
           IN /\ IsDocument(docs[1])
              /\ docs[1].roomId = "room-generated"
              /\ docs[1].lastChangedClock = 2
              /\ IsPage(docs[2])
              /\ docs[2].id = PageId
              /\ docs[2].lastChangedClock = 0

(* C23: within one unpack run no room directory is unpacked more than once, *)
(* also when several link records name the same target room id before the   *)
(* target is dequeued.                                                      *)
C23_NoRoomUnpackedTwice ==
  FirstRun =>
    \A i \in 1..Len(unpackLog) : \A j \in 1..Len(unpackLog) :
      i # j => unpackLog[i] # unpackLog[j]

\* the traversal has ended: the while loop was left with an empty queue
TraversalEnded == pc \in {"cleanWidgets", "cleanRooms", "done"} /\ queue = <<>>

\* a link of an unpacked room R to its own room id or to the room id of one
\* of its ancestors is ignored: R/T is never pushed on the queue
AncestorLinksIgnored ==
  \A R \in unpacked : \A l \in Range(LinksOf(fs0, R)) :
    l.targetCanvasId \in Range(R) => Join(R, l.targetCanvasId) \notin Range(queueLog)

(* C24: on every tree and with every set of link records, self-links and    *)
(* links from a descendant back to an ancestor included, the traversal      *)
(* ends with an empty queue, and a link to an already visited ancestor is   *)
(* not followed: it causes no further unpack.                               *)
C24_TraversalTerminates ==
  /\ <>TraversalEnded
  /\ [](FirstRun => AncestorLinksIgnored)

\* the run has ended on a tree where room-A links to itself and to room-B,
\* room-B links back to room-A, and a directory room-A/room-B/room-A exists
C24_Witness ==
  /\ FirstRun /\ pc = "done" /\ queue = <<>>
  /\ HasLinkTo(fs0, DirA, "room-A") /\ HasLinkTo(fs0, DirA, "room-B")
  /\ HasLinkTo(fs0, DirAB, "room-A")
  /\ <<"room-A", "room-B", "room-A">> \in DOMAIN fs0.state
  /\ unpackLog = <<DirA, DirAB>>

\* this step unpacks the room at the head of the queue
UnpacksHead == queue # <<>> /\ unpackLog' = Append(unpackLog, Head(queue))

(* C25: while room P is processed, P/T is cleared from the candidates only  *)
(* when T's room id has not been visited; a link to an already visited room *)
(* id leaves the directory P/T among the candidates.                        *)
C25_ClearedOnlyWhenUnvisited ==
  [][UnpacksHead =>
       \A l \in Range(LinksOf(fs, Head(queue))) :
         (/\ l.targetCanvasId \in referencedRooms'
          /\ Join(Head(queue), l.targetCanvasId) \in fs.dirs)
           => Join(Head(queue), l.targetCanvasId) \in unreferencedRoomDirs']_vars

\* the paths this step pushes on the queue, in the order of the pushes
PushedNow == SubSeq(queueLog', Len(queueLog) + 1, Len(queueLog'))

\* the paths taken from the queue so far, in the order they were pushed
Dequeued == SubSeq(queueLog, 1, Len(queueLog) - Len(queue))

\* rooms are unpacked in the order they were pushed, so never a deeper room
\* before a room nearer to the root
UnpackedInQueueOrder ==
  /\ unpackLog = SelectSeq(Dequeued, LAMBDA q : q \in DOMAIN fs0.state)
  /\ \A i \in 1..Len(unpackLog) : \A j \in (i + 1)..Len(unpackLog) :
       Len(unpackLog[i]) <= Len(unpackLog[j])

\* the link targets of room P that are pushed when P is unpacked: those not
\* visited, as paths below P, in the order of P's link records
ChildrenInRecordOrder(P) ==
  LET ts == SelectSeq(LinkTargets(fs, P), LAMBDA t : t # "" /\ t \notin referencedRooms')
  IN [i \in 1..Len(ts) |-> Join(P, ts[i])]

(* C26: rooms are unpacked in breadth-first order: in the order in which    *)
(* their paths were enqueued, so a room at link distance d is never         *)
(* unpacked after a room at distance d+1 that was enqueued later; and the   *)
(* children of a room are enqueued, behind everything already waiting, in   *)
(* the order of their link records in that room's snapshot.                 *)
C26_BreadthFirstOrder ==
  /\ [](FirstRun => UnpackedInQueueOrder)
  /\ [][UnpacksHead =>
          /\ PushedNow = ChildrenInRecordOrder(Head(queue))
          /\ queue' = Tail(queue) \o PushedNow]_vars

\* room-A links to room-B and room-C, room-B links to room-C:
\* room-A/room-B/room-C was enqueued before room-A/room-C was unpacked and
\* was unpacked after it
C26_Witness ==
  /\ FirstRun /\ pc = "done"
  /\ LinkTargets(fs0, DirA) = <<"room-B", "room-C">>
  /\ queueLog = <<DirA, DirAB, DirAC, DirABC>>
  /\ unpackLog = <<DirA, DirAB, DirAC, DirABC>>

-----------------------------------------------------------------------------
(* C27: safe re-run after a crash.  When an unpack run was interrupted      *)
(* (between two file writes of a room, between two rooms, or in the middle  *)
(* of either deletion pass) and a fresh run then completes on the same      *)
(* snapshot files, the final tree equals the tree a single uninterrupted    *)
(* run from the original tree produces; generatedAt in canvas-metadata.json *)
(* is the time of the run that wrote the file, so the uninterrupted run it  *)
(* is compared with is one made at the time of the fresh run.               *)
C27_RerunAfterCrashEqualsOneRun ==
  (pc = "done" /\ runs > 1) => fs = UninterruptedRun(fs0, now)

\* a run was killed after it had written properties.json of widget-W1 in
\* room-A over the old one and before it wrote storage.json, a later run has
\* completed, and the tree is the one of a single run
C27_Witness ==
  /\ pc = "done"
  /\ runs = 2
  /\ LET k == <<DirA, WidgetDirName(<<"shape:", "W1">>)>>
     IN /\ k \in DOMAIN fsRun1.widgets
        /\ fsRun1.widgets[k].properties # fs0.widgets[k].properties
        /\ fsRun1.widgets[k].storage = fs0.widgets[k].storage
        /\ fs.widgets[k].storage # fs0.widgets[k].storage
  /\ fs # fsRun1
  /\ fs = UninterruptedRun(fs0, now)

-----------------------------------------------------------------------------
(* C28: packing room R writes only R's own snapshot file, and the snapshot  *)
(* depends only on R's metadata, storage and widget subdirectories and on   *)
(* the link-descriptor files of R's immediate child rooms; hence packing    *)
(* the rooms of a tree in any order produces the same snapshot for every    *)
(* room.                                                                    *)

\* the part of a tree the claim lets the snapshot of R depend on
OwnInputs(tree, R) ==
  LET children == RoomDirectoriesInPath(tree, R)
  IN [dirs |-> {R} \cup children,
      state |-> EmptyMap,
      meta |-> [p \in DOMAIN tree.meta \cap {R} |-> tree.meta[p]],
      gstore |-> [p \in DOMAIN tree.gstore \cap {R} |-> tree.gstore[p]],
      linkinfo |-> [q \in DOMAIN tree.linkinfo \cap children |-> tree.linkinfo[q]],
      widgets |-> [k \in {x \in DOMAIN tree.widgets : x[1] = R} |-> tree.widgets[k]]]

\* R has been packed in this run of the packer
PackedNow(R) ==
  /\ pc \in {"pack", "packed"}
  /\ R \in Range(FindRoomDirectories(fs0))
  /\ R \notin Range(packQueue)

\* the step packs the room R of the queue
Packs(R) ==
  \E i \in 1..Len(packQueue) :
    /\ packQueue[i] = R
    /\ packQueue' = SubSeq(packQueue, 1, i - 1) \o SubSeq(packQueue, i + 1, Len(packQueue))

-----------------------------------------------------------------------------
(* C29: an unpack run never deletes the root room directory.  In every      *)
(* reachable state the deletion candidates are room-* directories that are  *)
(* immediate children of a room unpacked in this run, so the room-*         *)
(* directory under the repository root is never among them, whatever the    *)
(* link records say, and it exists in every state of the run.               *)
C29_RootRoomNeverACandidate ==
  /\ \A c \in unreferencedRoomDirs :
       /\ c \in fs0.dirs
       /\ Len(c) >= 2
       /\ Dirname(c) \in unpacked
  /\ unreferencedRoomDirs \cap RootRoomDirs(fs0) = {}
  /\ RootRoomDirs(fs0) \subseteq fs.dirs

\* a run has ended in which room-A/room-B, unpacked, holds a link record
\* naming the root room room-A, and a candidate was deleted; the root stays
C29_Witness ==
  /\ pc = "done"
  /\ FirstRun
  /\ DirAB \in unpacked
  /\ HasLinkTo(fs0, DirAB, "room-A")
  /\ unreferencedRoomDirs # {}
  /\ fs.dirs # fs0.dirs
  /\ DirA \in fs.dirs

-----------------------------------------------------------------------------
(* C30: a child room made by the room-provisioning command under parent P   *)
(* survives the sequence provision, pack, unpack: after P is packed, P's    *)
(* snapshot holds a link record whose targetCanvasId is the new child, and  *)
(* the following unpack run retains the child directory; an unpack run that *)
(* happens before P is packed is the only step that can remove it.          *)

\* the parent of the child room has been packed since the child was made
ParentPackedSince ==
  /\ childRoom # <<>>
  /\ packed
  /\ ~packedAtProvision
  /\ childRoom[1].parent \notin Range(packQueue)

\* the step removes the directory of the child room
RemovesChild ==
  /\ childRoom # <<>>
  /\ childRoom[1].path \in fs.dirs
  /\ childRoom[1].path \notin fs'.dirs

C30_ProvisionedChildSurvives ==
  /\ [](ParentPackedSince =>
          /\ childRoom[1].path \in fs.dirs
          /\ HasLinkTo(fs, childRoom[1].parent, Basename(childRoom[1].path)))
  /\ [][RemovesChild => (pc = "cleanRooms" /\ ~ParentPackedSince)]_vars

\* the child room was made under room-A/room-B after the first unpack run,
\* the packer ran, and the second unpack run has ended: the child is there,
\* unpacked, and its parent's snapshot links to it
C30_Witness ==
  /\ pc = "done"
  /\ runs = 2
  /\ ParentPackedSince
  /\ childRoom[1].parent = DirAB
  /\ DirABC \in fs.dirs
  /\ DirABC \in unpacked
  /\ HasLinkTo(fs, DirAB, "room-C")

====
